---- MODULE Spec2Model ----
(***************************************************************************)
(* Job queue and worker loop of the video generator                        *)
(* (server/routes/videos.js), the generated_videos table it writes         *)
(* (initDatabase), the explicit delete route and the status endpoint:      *)
(* specification Spec; with the expiry sweeper                             *)
(* (server/services/cleanup.js) running beside them: SweepSpec.            *)
(* The pipeline VideoProcessor.generateVSL, which the worker awaits as one *)
(* call, is modelled stage by stage on its own: specification              *)
(* PipelineSpec.  The values and ffmpeg filter expressions its stages      *)
(* compute (services/videoProcessor.js and its older revisions part_001    *)
(* and part_002) are exercised function by function: RenderSpec; the tabs  *)
(* captureWebsite opens and closes: CaptureSpec.  cleanupStorageLimit and  *)
(* the storage volume: StorageSpec.  ExpirySpec runs the sweeper, the      *)
(* delete route and the status endpoint (query by query) on the tables the *)
(* worker can leave, with the files of the completed records on disk; in   *)
(* Spec and SweepSpec, where generateVSL is one call, no file is written.  *)
(*                                                                         *)
(* Every action is one turn of the Node event loop: the code that runs     *)
(* from the completion of one awaited call to the next await.  A store     *)
(* call that throws has no effect on the table (a failed SQL statement is  *)
(* rolled back).                                                           *)
(***************************************************************************)
EXTENDS Integers, Sequences, FiniteSets, TLC

\* ---- bounds of the model ----
NumLeads == 2
NumCampaigns == 1
MaxJobs == 2
MaxDrains == 2
MaxTicks == 1
MaxRuns == 2
Refine == 1
MaxOutputTime == 22
TicksPerSecond == 2
MaxCaptures == 3

\* ---- program constants ----
RETENTION_DAYS == 30

Leads == 1..NumLeads
Campaigns == 1..NumCampaigns
DrainIds == 1..MaxDrains

\* leads.campaign_id: the campaign a lead row belongs to
CampaignOf(l) == ((l - 1) % NumCampaigns) + 1

NULL == "NULL"
NoPath == <<>>
NoJob == [id |-> 0, leadId |-> 0, campaignId |-> 0]

\* the artifact paths generateVSL returns for a lead
VideoPath(l) == <<"videos", l>>
PreviewPath(l) == <<"previews", l>>
ThumbnailPath(l) == <<"thumbnails", l>>
ScreenshotPath(l) == <<"temp", l, "screenshot.png">>

\* getExpirationDate(): today plus the retention period, in days
getExpirationDate(today) == today + RETENTION_DAYS

VARIABLES
  processingQueue,  \* let processingQueue = []
  isProcessing,     \* let isProcessing = false
  pc,               \* per processQueue call: the await it is suspended at
  job,              \* per processQueue call: the job of processVideoJob
  uniqueSlug,       \* per processVideoJob call: const uniqueSlug
  expiresAt,        \* per processVideoJob call: const expiresAt
  caught,           \* per processVideoJob call: error.message in the catch
  store,            \* rows of generated_videos
  rowsInserted,     \* number of rows inserted so far (row ids)
  nanoidCount,      \* number of slugs nanoid has produced
  now,              \* the calendar day
  enqueued,         \* number of jobs appended so far (job ids)
  started,          \* history: ids of the jobs shifted off the queue, in order
  finished,         \* history: ids of the jobs whose processVideoJob returned
  terminal,         \* history, per job id: terminal statuses the job has written
  lastOutcome,      \* history, per call: how the previous job of the drain ended
  rowHist,          \* history, per lead: statuses the lead's current row has had
  lastWrite,        \* history, per lead: the latest status write of the worker
  sessionError,     \* history: some init() or close() has thrown
  result,           \* per processVideoJob call: result.success of generateVSL
  leadsTable,       \* ids of the rows of leads
  sweep,            \* cleanupExpiredVideos: its await, the rest of expiredVideos
  rerunOfFailed,    \* history, per call: the job found the lead's row failed
  browsers,         \* the calls whose processor.browser is a running browser
  statusReq,        \* GET /status: its await, videoResult, the status it sent
  vslPc,            \* generateVSL: the await it is suspended at
  vslLead,          \* generateVSL: config.leadId
  vslCalls,         \* history: the renderer and compositor calls of the invocation
  vslError,         \* generateVSL: the call whose error reached the catch block
  vslResult,        \* how the invocation ended: its return value, or rejected
  rmFailed,         \* history: the last fs.rm of the invocation rejected
  disk,             \* the paths that exist on disk
  vslRuns,          \* number of generateVSL invocations so far
  renderPc,         \* the function of VideoProcessor that is being exercised
  snapshot,         \* the revision of videoProcessor.js that runs
  gen,              \* generateVSL: its config and the values it has computed
  scroll,           \* createScrollingBackground: arguments, frame, crop offset
  overlay,          \* createVideoWithOverlay: config, position, frame, phases
  capPc,            \* captureWebsite: the await it is suspended at
  capPage,          \* captureWebsite: const page
  capResult,        \* captureWebsite: the value its return statement holds
  pages,            \* the tabs that captureWebsite has opened and are open
  pagesOpened,      \* number of tabs opened so far (tab ids)
  capOutcomes,      \* history: how each captureWebsite call ended
  closeFailed,      \* history: some page.close() has rejected
  limitPc,          \* cleanupStorageLimit: the await it is suspended at
  limit,            \* cleanupStorageLimit: its local variables, its result
  volumeMB,         \* per completed video, oldest first: MB of its files on disk
  limitDb           \* the rows of generated_videos and leads of those videos

\* the state of the queue, the worker, the store and the sweeper
workerVars == <<processingQueue, isProcessing, pc, job, uniqueSlug, expiresAt,
                caught, store, rowsInserted, nanoidCount, now, enqueued,
                started, finished, terminal, lastOutcome, rowHist, lastWrite,
                sessionError, result, leadsTable, sweep, rerunOfFailed,
                browsers, statusReq>>

\* generateVSL: its position, its locals and the history of its calls
vslVars == <<vslPc, vslLead, vslCalls, vslError, vslResult, rmFailed, vslRuns>>

\* the state of one VideoProcessor's generateVSL
pipelineVars == <<vslPc, vslLead, vslCalls, vslError, vslResult, rmFailed, disk,
                  vslRuns>>

\* the filter computations of VideoProcessor, one function at a time
renderVars == <<renderPc, snapshot, gen, scroll, overlay>>

\* the state of one VideoProcessor's captureWebsite and its browser
captureVars == <<capPc, capPage, capResult, pages, pagesOpened, capOutcomes,
                 closeFailed>>

\* the state of cleanupStorageLimit, the storage volume and the rows it reads
storageVars == <<limitPc, limit, volumeMB, limitDb>>

vars == <<processingQueue, isProcessing, pc, job, uniqueSlug, expiresAt, caught,
          store, rowsInserted, nanoidCount, now, enqueued, started, finished,
          terminal, lastOutcome, rowHist, lastWrite, sessionError, result,
          leadsTable, sweep, rerunOfFailed, browsers, statusReq, vslPc, vslLead, vslCalls, vslError,
          vslResult, rmFailed, disk, vslRuns, renderPc, snapshot, gen, scroll,
          overlay, capPc, capPage, capResult, pages, pagesOpened,
          capOutcomes, closeFailed, limitPc, limit, volumeMB, limitDb>>

JobPcs == {"upsertProcessing", "generateVSL", "updateCompleted", "upsertFailed"}
NoWrite == [status |-> "none"]

\* ---- the generated_videos table ----

RowsOf(s, l) == {r \in s : r.lead_id = l}

\* INSERT ... 'processing' ... ON CONFLICT ON CONSTRAINT unique_lead_video DO UPDATE
UpsertProcessing_plainInsert(s, rid, l, c, slug, exp) ==
  s \cup {[id |-> rid, lead_id |-> l, campaign_id |-> c, unique_slug |-> slug,
           status |-> "processing", video_path |-> NoPath, preview_path |-> NoPath,
           thumbnail_path |-> NoPath, background_path |-> NoPath,
           error_message |-> NULL, expires_at |-> exp]}

UpsertProcessing_statusOnly(s, rid, l, c, slug, exp) ==
  IF RowsOf(s, l) # {}
  THEN {IF r.lead_id = l THEN [r EXCEPT !.status = "processing"] ELSE r : r \in s}
  ELSE UpsertProcessing_plainInsert(s, rid, l, c, slug, exp)

UpsertProcessing_keepsError(s, rid, l, c, slug, exp) ==
  IF RowsOf(s, l) # {}
  THEN {IF r.lead_id = l
        THEN [r EXCEPT !.status = "processing", !.unique_slug = slug,
                       !.campaign_id = c, !.expires_at = exp]
        ELSE r : r \in s}
  ELSE UpsertProcessing_plainInsert(s, rid, l, c, slug, exp)

UpsertProcessing(s, rid, l, c, slug, exp) ==
  IF RowsOf(s, l) # {}
  THEN {IF r.lead_id = l
        THEN [r EXCEPT !.status = "processing", !.unique_slug = slug,
                       !.campaign_id = c, !.error_message = NULL,
                       !.expires_at = exp]
        ELSE r : r \in s}
  ELSE s \cup {[id |-> rid, lead_id |-> l, campaign_id |-> c, unique_slug |-> slug,
                status |-> "processing", video_path |-> NoPath,
                preview_path |-> NoPath, thumbnail_path |-> NoPath,
                background_path |-> NoPath, error_message |-> NULL,
                expires_at |-> exp]}

\* UPDATE generated_videos SET status = 'completed', paths WHERE lead_id = $5
UpdateCompleted(s, l) ==
  {IF r.lead_id = l
   THEN [r EXCEPT !.status = "completed", !.video_path = VideoPath(l),
                  !.preview_path = PreviewPath(l),
                  !.thumbnail_path = ThumbnailPath(l),
                  !.background_path = ScreenshotPath(l)]
   ELSE r : r \in s}

\* INSERT ... 'failed' ... ON CONFLICT ON CONSTRAINT unique_lead_video DO UPDATE
UpsertFailed(s, rid, l, c, slug, msg, exp) ==
  IF RowsOf(s, l) # {}
  THEN {IF r.lead_id = l
        THEN [r EXCEPT !.status = "failed", !.error_message = msg]
        ELSE r : r \in s}
  ELSE s \cup {[id |-> rid, lead_id |-> l, campaign_id |-> c, unique_slug |-> slug,
                status |-> "failed", video_path |-> NoPath,
                preview_path |-> NoPath, thumbnail_path |-> NoPath,
                background_path |-> NoPath, error_message |-> msg,
                expires_at |-> exp]}

\* DELETE FROM generated_videos WHERE id = $1
DeleteById(s, rid) == {r \in s : r.id # rid}

\* deleteVideoFiles: the paths of the record that are set; each is unlinked
\* (a missing file is ignored)
FilesOf(r) ==
  {r.video_path, r.preview_path, r.thumbnail_path, r.background_path} \ {NoPath}

\* the row id the next INSERT uses, and the count after a statement on lead l
InsertCount(s, l, n) == IF RowsOf(s, l) # {} THEN n ELSE n + 1

\* ---- history bookkeeping ----

\* the fields a status write of the job of drain d carries
WriteOf(d, st, msg) ==
  LET l == job[d].leadId IN
  [status |-> st, unique_slug |-> uniqueSlug[d], expires_at |-> expiresAt[d],
   error_message |-> msg,
   video_path |-> IF st = "completed" THEN VideoPath(l) ELSE NoPath,
   preview_path |-> IF st = "completed" THEN PreviewPath(l) ELSE NoPath,
   thumbnail_path |-> IF st = "completed" THEN ThumbnailPath(l) ELSE NoPath,
   background_path |-> IF st = "completed" THEN ScreenshotPath(l) ELSE NoPath]

\* ---- processQueue ----

\* processingQueue.shift()
QueuePop(q) == [job |-> q[Len(q)], rest |-> SubSeq(q, 1, Len(q) - 1)]

QueueShift(q) == [job |-> Head(q), rest |-> Tail(q)]

\* the lowest unused processQueue activation
FreeDrain == CHOOSE d \in DrainIds : pc[d] = "idle" /\ \A e \in DrainIds : e < d => pc[e] # "idle"

\* processQueue, lines 115-124: from the call to the await of processor.init()
processQueueEntry_lateFlag(q, d) ==
  IF Len(q) = 0
  THEN isProcessing' = FALSE /\ pc' = pc
  ELSE isProcessing' = isProcessing /\ pc' = [pc EXCEPT ![d] = "init"]

processQueueEntry(q, d) ==
  IF Len(q) = 0
  THEN isProcessing' = FALSE /\ pc' = pc
  ELSE isProcessing' = TRUE /\ pc' = [pc EXCEPT ![d] = "init"]

\* processQueue, lines 126-133: the while test, the shift, and processVideoJob
\* up to its first await (lines 140-146); or the finally block up to the await
\* of processor.close()
LoopNext(d, outcome) ==
  IF Len(processingQueue) > 0
  THEN LET sh == QueueShift(processingQueue) IN
       /\ processingQueue' = sh.rest
       /\ job' = [job EXCEPT ![d] = sh.job]
       /\ uniqueSlug' = [uniqueSlug EXCEPT ![d] = nanoidCount + 1]
       /\ nanoidCount' = nanoidCount + 1
       /\ expiresAt' = [expiresAt EXCEPT ![d] = getExpirationDate(now)]
       /\ caught' = [caught EXCEPT ![d] = NULL]
       /\ result' = [result EXCEPT ![d] = "none"]
       /\ rerunOfFailed' = [rerunOfFailed EXCEPT ![d] = FALSE]
       /\ pc' = [pc EXCEPT ![d] = "upsertProcessing"]
       /\ started' = Append(started, sh.job.id)
       /\ lastOutcome' = [lastOutcome EXCEPT ![d] = outcome]
  ELSE /\ pc' = [pc EXCEPT ![d] = "close"]
       /\ job' = [job EXCEPT ![d] = NoJob]
       /\ uniqueSlug' = [uniqueSlug EXCEPT ![d] = 0]
       /\ expiresAt' = [expiresAt EXCEPT ![d] = 0]
       /\ caught' = [caught EXCEPT ![d] = NULL]
       /\ result' = [result EXCEPT ![d] = "none"]
       /\ rerunOfFailed' = [rerunOfFailed EXCEPT ![d] = FALSE]
       /\ lastOutcome' = [lastOutcome EXCEPT ![d] = outcome]
       /\ UNCHANGED <<processingQueue, nanoidCount, started>>

\* await processor.init() resolves: puppeteer.launch has started a browser
InitReturns(d) ==
  /\ pc[d] = "init"
  /\ browsers' = browsers \cup {d}
  /\ LoopNext(d, "none")
  /\ UNCHANGED <<isProcessing, store, rowsInserted, now, enqueued, finished,
                 terminal, rowHist, lastWrite, sessionError, leadsTable,
                 sweep, statusReq, pipelineVars,
                 renderVars, captureVars, storageVars>>

\* await processor.init() rejects: catch, then finally; close() has no browser
\* to close and resolves at once
InitThrows(d) ==
  /\ pc[d] = "init"
  /\ pc' = [pc EXCEPT ![d] = "idle"]
  /\ isProcessing' = FALSE
  /\ sessionError' = TRUE
  /\ UNCHANGED <<processingQueue, job, uniqueSlug, expiresAt, caught, store,
                 rowsInserted, nanoidCount, now, enqueued, started, finished,
                 terminal, lastOutcome, rowHist, lastWrite, result,
                 leadsTable, sweep, rerunOfFailed, browsers, statusReq, pipelineVars,
                 renderVars, captureVars, storageVars>>

\* ---- processVideoJob ----

\* the processing upsert resolves (lead_id REFERENCES leads: the lead's row
\* exists); generateVSL is called
UpsertProcessingReturns(d) ==
  /\ pc[d] = "upsertProcessing"
  /\ job[d].leadId \in leadsTable
  /\ LET l == job[d].leadId IN
     /\ store' = UpsertProcessing(store, rowsInserted + 1, l, job[d].campaignId,
                                  uniqueSlug[d], expiresAt[d])
     /\ rowsInserted' = InsertCount(store, l, rowsInserted)
     /\ rowHist' = [rowHist EXCEPT ![l] = @ \cup {"processing"}]
     /\ lastWrite' = [lastWrite EXCEPT ![l] = WriteOf(d, "processing", NULL)]
     /\ rerunOfFailed' = [rerunOfFailed EXCEPT ![d] =
                            \E r \in RowsOf(store, l) : r.status = "failed"]
  /\ pc' = [pc EXCEPT ![d] = "generateVSL"]
  /\ UNCHANGED <<processingQueue, isProcessing, job, uniqueSlug, expiresAt,
                 caught, nanoidCount, now, enqueued, started, finished,
                 terminal, lastOutcome, sessionError, result, leadsTable,
                 sweep, browsers, statusReq, pipelineVars,
                 renderVars, captureVars, storageVars>>

\* the processing upsert rejects: control goes to the catch block
UpsertProcessingThrows(d) ==
  /\ pc[d] = "upsertProcessing"
  /\ caught' = [caught EXCEPT ![d] = "store error"]
  /\ pc' = [pc EXCEPT ![d] = "upsertFailed"]
  /\ UNCHANGED <<processingQueue, isProcessing, job, uniqueSlug, expiresAt,
                 store, rowsInserted, nanoidCount, now, enqueued, started,
                 finished, terminal, lastOutcome, rowHist,
                 lastWrite, sessionError, result, leadsTable, sweep,
                 rerunOfFailed, browsers, statusReq, pipelineVars,
                 renderVars, captureVars, storageVars>>

\* generateVSL resolves with success: the completed UPDATE is issued
GenerateVSLSucceeds(d) ==
  /\ pc[d] = "generateVSL"
  /\ result' = [result EXCEPT ![d] = "success"]
  /\ pc' = [pc EXCEPT ![d] = "updateCompleted"]
  /\ UNCHANGED <<processingQueue, isProcessing, job, uniqueSlug, expiresAt,
                 caught, store, rowsInserted, nanoidCount, now, enqueued,
                 started, finished, terminal, lastOutcome, rowHist,
                 lastWrite, sessionError, leadsTable, sweep, rerunOfFailed, browsers, statusReq,
                 pipelineVars,
                 renderVars, captureVars, storageVars>>

\* generateVSL resolves with {success: false} (throw new Error(result.error))
\* or rejects: control goes to the catch block
GenerateVSLFails(d) ==
  /\ pc[d] = "generateVSL"
  /\ result' = [result EXCEPT ![d] = "failure"]
  /\ caught' = [caught EXCEPT ![d] = "pipeline error"]
  /\ pc' = [pc EXCEPT ![d] = "upsertFailed"]
  /\ UNCHANGED <<processingQueue, isProcessing, job, uniqueSlug, expiresAt,
                 store, rowsInserted, nanoidCount, now, enqueued, started,
                 finished, terminal, lastOutcome, rowHist,
                 lastWrite, sessionError, leadsTable, sweep, rerunOfFailed, browsers, statusReq,
                 pipelineVars,
                 renderVars, captureVars, storageVars>>

\* the completed UPDATE resolves; processVideoJob returns
UpdateCompletedReturns_fallsThrough(d) ==
  /\ pc[d] = "updateCompleted"
  /\ LET l == job[d].leadId IN
     /\ store' = UpdateCompleted(store, l)
     /\ terminal' = [terminal EXCEPT ![job[d].id] =
                       IF RowsOf(store, l) # {} THEN @ \cup {"completed"} ELSE @]
  /\ caught' = [caught EXCEPT ![d] = "pipeline error"]
  /\ pc' = [pc EXCEPT ![d] = "upsertFailed"]
  /\ UNCHANGED <<processingQueue, isProcessing, job, uniqueSlug, expiresAt,
                 rowsInserted, nanoidCount, now, enqueued, started, finished,
                 lastOutcome, rowHist, lastWrite, sessionError, result,
                 leadsTable, sweep, rerunOfFailed, browsers, statusReq, pipelineVars,
                 renderVars, captureVars, storageVars>>

UpdateCompletedReturns(d) ==
  /\ pc[d] = "updateCompleted"
  /\ LET l == job[d].leadId
         hit == RowsOf(store, l) # {}
     IN
     /\ store' = UpdateCompleted(store, l)
     /\ rowHist' = [rowHist EXCEPT ![l] = IF hit THEN @ \cup {"completed"} ELSE @]
     /\ lastWrite' = [lastWrite EXCEPT ![l] =
                        IF hit THEN WriteOf(d, "completed", NULL) ELSE @]
     /\ finished' = Append(finished, job[d].id)
     /\ LoopNext(d, "completed")
     /\ terminal' = [terminal EXCEPT ![job[d].id] = IF hit THEN @ \cup {"completed"} ELSE @]
  /\ UNCHANGED <<isProcessing, rowsInserted, now, enqueued, sessionError,
                 leadsTable, sweep, browsers, statusReq, pipelineVars,
                 renderVars, captureVars, storageVars>>

\* the completed UPDATE rejects: control goes to the catch block
UpdateCompletedThrows(d) ==
  /\ pc[d] = "updateCompleted"
  /\ caught' = [caught EXCEPT ![d] = "store error"]
  /\ pc' = [pc EXCEPT ![d] = "upsertFailed"]
  /\ UNCHANGED <<processingQueue, isProcessing, job, uniqueSlug, expiresAt,
                 store, rowsInserted, nanoidCount, now, enqueued, started,
                 finished, terminal, lastOutcome, rowHist,
                 lastWrite, sessionError, result, leadsTable, sweep,
                 rerunOfFailed, browsers, statusReq, pipelineVars,
                 renderVars, captureVars, storageVars>>

\* the failed upsert resolves (the lead's row exists); processVideoJob returns
UpsertFailedReturns(d) ==
  /\ pc[d] = "upsertFailed"
  /\ job[d].leadId \in leadsTable
  /\ LET l == job[d].leadId IN
     /\ store' = UpsertFailed(store, rowsInserted + 1, l, job[d].campaignId,
                              uniqueSlug[d], caught[d], expiresAt[d])
     /\ rowsInserted' = InsertCount(store, l, rowsInserted)
     /\ rowHist' = [rowHist EXCEPT ![l] = @ \cup {"failed"}]
     /\ lastWrite' = [lastWrite EXCEPT ![l] = WriteOf(d, "failed", caught[d])]
  /\ terminal' = [terminal EXCEPT ![job[d].id] = @ \cup {"failed"}]
  /\ finished' = Append(finished, job[d].id)
  /\ LoopNext(d, "failed")
  /\ UNCHANGED <<isProcessing, now, enqueued, sessionError, leadsTable,
                 sweep, browsers, statusReq, pipelineVars,
                 renderVars, captureVars, storageVars>>

\* the failed upsert rejects: the inner catch logs it; processVideoJob returns
UpsertFailedThrows_escapes(d) ==
  /\ pc[d] = "upsertFailed"
  /\ pc' = [pc EXCEPT ![d] = "close"]
  /\ job' = [job EXCEPT ![d] = NoJob]
  /\ uniqueSlug' = [uniqueSlug EXCEPT ![d] = 0]
  /\ expiresAt' = [expiresAt EXCEPT ![d] = 0]
  /\ caught' = [caught EXCEPT ![d] = NULL]
  /\ result' = [result EXCEPT ![d] = "none"]
  /\ rerunOfFailed' = [rerunOfFailed EXCEPT ![d] = FALSE]
  /\ lastOutcome' = [lastOutcome EXCEPT ![d] = "unrecorded"]
  /\ UNCHANGED <<processingQueue, isProcessing, store, rowsInserted,
                 nanoidCount, now, enqueued, started, finished, terminal,
                 rowHist, lastWrite, sessionError, leadsTable, sweep, browsers, statusReq, pipelineVars,
                 renderVars, captureVars, storageVars>>

UpsertFailedThrows(d) ==
  /\ pc[d] = "upsertFailed"
  /\ finished' = Append(finished, job[d].id)
  /\ LoopNext(d, "unrecorded")
  /\ UNCHANGED <<isProcessing, store, rowsInserted, now, enqueued, terminal,
                 rowHist, lastWrite, sessionError, leadsTable, sweep, browsers, statusReq, pipelineVars,
                 renderVars, captureVars, storageVars>>

\* ---- processQueue, the finally block ----

CloseReturns_keepsBrowser(d) ==
  /\ pc[d] = "close"
  /\ pc' = [pc EXCEPT ![d] = "idle"]
  /\ isProcessing' = FALSE
  /\ browsers' = browsers
  /\ lastOutcome' = [lastOutcome EXCEPT ![d] = "none"]
  /\ UNCHANGED <<processingQueue, job, uniqueSlug, expiresAt, caught, store,
                 rowsInserted, nanoidCount, now, enqueued, started, finished,
                 terminal, rowHist, lastWrite, sessionError, result,
                 leadsTable, sweep, rerunOfFailed, statusReq, pipelineVars,
                 renderVars, captureVars, storageVars>>

\* await processor.close() resolves: isProcessing = false
CloseReturns(d) ==
  /\ pc[d] = "close"
  /\ pc' = [pc EXCEPT ![d] = "idle"]
  /\ isProcessing' = FALSE
  /\ browsers' = browsers \ {d}
  /\ lastOutcome' = [lastOutcome EXCEPT ![d] = "none"]
  /\ UNCHANGED <<processingQueue, job, uniqueSlug, expiresAt, caught, store,
                 rowsInserted, nanoidCount, now, enqueued, started, finished,
                 terminal, rowHist, lastWrite, sessionError, result,
                 leadsTable, sweep, rerunOfFailed, statusReq, pipelineVars,
                 renderVars, captureVars, storageVars>>

\* await processor.close() rejects inside finally: the assignment is skipped;
\* the browser has exited, or browser.close() failed and it is still running
CloseThrows(d, closed) ==
  /\ pc[d] = "close"
  /\ pc' = [pc EXCEPT ![d] = "idle"]
  /\ lastOutcome' = [lastOutcome EXCEPT ![d] = "none"]
  /\ sessionError' = TRUE
  /\ browsers' = IF closed THEN browsers \ {d} ELSE browsers
  /\ UNCHANGED <<processingQueue, isProcessing, job, uniqueSlug, expiresAt,
                 caught, store, rowsInserted, nanoidCount, now, enqueued,
                 started, finished, terminal, rowHist, lastWrite, result,
                 leadsTable, sweep, rerunOfFailed, statusReq, pipelineVars,
                 renderVars, captureVars, storageVars>>

WorkerStep(d) ==
  \/ InitReturns(d) \/ InitThrows(d)
  \/ UpsertProcessingReturns(d) \/ UpsertProcessingThrows(d)
  \/ GenerateVSLSucceeds(d) \/ GenerateVSLFails(d)
  \/ UpdateCompletedReturns(d) \/ UpdateCompletedThrows(d)
  \/ UpsertFailedReturns(d) \/ UpsertFailedThrows(d)
  \/ CloseReturns(d) \/ \E closed \in BOOLEAN : CloseThrows(d, closed)

\* ---- HTTP handlers ----

\* SELECT ... FROM leads WHERE campaign_id = $1
LeadsOfCampaign(c) == {l \in leadsTable : CampaignOf(l) = c}

\* the rows of the leads query, in the order the store returns them
LeadRows(c) ==
  {ls \in UNION {[1..n -> LeadsOfCampaign(c)] : n \in 1..NumLeads} :
     \A i, j \in DOMAIN ls : i # j => ls[i] # ls[j]}

\* leads.map(lead => ({leadId, campaignId, campaign, lead}))
JobsFor(c, ls) ==
  [i \in DOMAIN ls |-> [id |-> enqueued + i, leadId |-> ls[i], campaignId |-> c]]

\* POST /generate/:campaignId, lines 87-100: push the jobs, start a drain
\* unless one is running
Generate(c, ls) ==
  /\ enqueued + Len(ls) <= MaxJobs
  /\ isProcessing \/ \E d \in DrainIds : pc[d] = "idle"
  /\ processingQueue' = processingQueue \o JobsFor(c, ls)
  /\ enqueued' = enqueued + Len(ls)
  /\ IF ~isProcessing
     THEN processQueueEntry(processingQueue', FreeDrain)
     ELSE UNCHANGED <<isProcessing, pc>>
  /\ UNCHANGED <<job, uniqueSlug, expiresAt, caught, store, rowsInserted,
                 nanoidCount, now, started, finished, terminal, lastOutcome,
                 rowHist, lastWrite, sessionError, result, leadsTable, sweep,
                 rerunOfFailed, browsers, statusReq, pipelineVars,
                 renderVars, captureVars, storageVars>>

\* GET /status/:campaignId, lines 220-229: the counts by status of the
\* campaign's rows
VideoStatus(c) ==
  LET rows(st) == Cardinality({r \in store : r.campaign_id = c /\ r.status = st}) IN
  [completed |-> rows("completed"), processing |-> rows("processing"),
   pending |-> rows("pending"), failed |-> rows("failed"),
   video_count |-> Cardinality({r \in store : r.campaign_id = c})]

\* Math.max(0, x)
Max0(x) == IF x > 0 THEN x ELSE 0

\* processingQueue.filter(j => j.campaignId === campaignId).length
QueuedInMemory(c) ==
  Cardinality({i \in DOMAIN processingQueue : processingQueue[i].campaignId = c})

\* GET /status/:campaignId, lines 236-258: the response, computed from the
\* row of the first query and from the leads and the queue as they are when
\* the second query resolves
StatusResponse(videoStatus, c) ==
  LET totalLeads == Cardinality(LeadsOfCampaign(c))
      videosCreated == videoStatus.video_count
      queuedInMemory == QueuedInMemory(c)
      waitingForProcessing == totalLeads - videosCreated
      actualPending == videoStatus.pending
      totalPending == actualPending + Max0(waitingForProcessing)
  IN [completed |-> videoStatus.completed, processing |-> videoStatus.processing,
      pending |-> totalPending, failed |-> videoStatus.failed,
      total |-> totalLeads, queuePosition |-> queuedInMemory,
      isProcessing |-> isProcessing]

\* GET /status/:campaignId, lines 236-258: the response, both queries having
\* read the same state of the store
GetStatus_queued(c) ==
  LET videoStatus == VideoStatus(c)
      totalLeads == Cardinality(LeadsOfCampaign(c))
      queuedInMemory == QueuedInMemory(c)
      actualPending == videoStatus.pending
      totalPending == actualPending + queuedInMemory
  IN [completed |-> videoStatus.completed, processing |-> videoStatus.processing,
      pending |-> totalPending, failed |-> videoStatus.failed,
      total |-> totalLeads, queuePosition |-> queuedInMemory,
      isProcessing |-> isProcessing]

GetStatus(c) == StatusResponse(VideoStatus(c), c)

\* no status request is in flight and none has been answered
NoStatusRequest ==
  [pc |-> "idle", campaignId |-> 0,
   videoStatus |-> [completed |-> 0, processing |-> 0, pending |-> 0,
                    failed |-> 0, video_count |-> 0],
   status |-> [completed |-> 0, processing |-> 0, pending |-> 0, failed |-> 0,
               total |-> 0]]

\* GET /status/:campaignId, lines 216-232: the request arrives and the first
\* query resolves with the counts of the campaign's rows; the query of the
\* leads is issued
GetStatusVideoQueryReturns(c) ==
  /\ statusReq.pc = "idle"
  /\ statusReq' = [statusReq EXCEPT !.pc = "leadsQuery", !.campaignId = c,
                                    !.videoStatus = VideoStatus(c)]
  /\ UNCHANGED <<processingQueue, isProcessing, pc, job, uniqueSlug, expiresAt,
                 caught, store, rowsInserted, nanoidCount, now, enqueued,
                 started, finished, terminal, lastOutcome, rowHist, lastWrite,
                 sessionError, result, leadsTable, sweep, rerunOfFailed,
                 browsers, pipelineVars, renderVars, captureVars, storageVars>>

\* lines 232-258: the query of the leads resolves and the response is sent
GetStatusLeadsQueryReturns ==
  /\ statusReq.pc = "leadsQuery"
  /\ LET r == StatusResponse(statusReq.videoStatus, statusReq.campaignId) IN
     statusReq' = [statusReq EXCEPT
                     !.pc = "idle",
                     !.status = [completed |-> r.completed,
                                 processing |-> r.processing,
                                 pending |-> r.pending, failed |-> r.failed,
                                 total |-> r.total]]
  /\ UNCHANGED <<processingQueue, isProcessing, pc, job, uniqueSlug, expiresAt,
                 caught, store, rowsInserted, nanoidCount, now, enqueued,
                 started, finished, terminal, lastOutcome, rowHist, lastWrite,
                 sessionError, result, leadsTable, sweep, rerunOfFailed,
                 browsers, pipelineVars, renderVars, captureVars, storageVars>>

\* DELETE /:slug, lines 415-446: the row found by its slug is deleted by id
DeleteVideo(r) ==
  /\ r \in store
  /\ store' = DeleteById(store, r.id)
  /\ rowHist' = [rowHist EXCEPT ![r.lead_id] = {}]
  /\ lastWrite' = [lastWrite EXCEPT ![r.lead_id] = NoWrite]
  /\ disk' = disk \ FilesOf(r)
  /\ UNCHANGED <<processingQueue, isProcessing, pc, job, uniqueSlug, expiresAt,
                 caught, rowsInserted, nanoidCount, now, enqueued, started,
                 finished, terminal, lastOutcome, sessionError, result,
                 leadsTable, sweep, rerunOfFailed, browsers, statusReq, vslVars,
                 renderVars, captureVars, storageVars>>

\* DELETE /:slug: the files of the row are unlinked (line 432), then the
\* DELETE rejects (line 435) and the handler answers 500
DeleteVideoThrows(r) ==
  /\ r \in store
  /\ FilesOf(r) \cap disk # {}
  /\ disk' = disk \ FilesOf(r)
  /\ UNCHANGED <<workerVars, vslVars, renderVars, captureVars, storageVars>>

\* ---- cleanupExpiredVideos ----

NoSweep == [pc |-> "idle", rows |-> <<>>, selected |-> 0, deletedCount |-> 0,
            errorCount |-> 0, deleted |-> {}]

\* WHERE expires_at IS NOT NULL AND expires_at < NOW()
ExpiredRows(s, today) == {r \in s : r.expires_at < today}

\* expiredResult.rows: the selected rows in the order the store returns them
ExpiredVideos(s, today) ==
  {rs \in [1..Cardinality(ExpiredRows(s, today)) -> ExpiredRows(s, today)] :
     \A i, j \in DOMAIN rs : i # j => rs[i] # rs[j]}

\* DELETE FROM leads WHERE id = $1; generated_videos.lead_id is ON DELETE CASCADE
DeleteLead(s, l) == {r \in s : r.lead_id # l}

\* the end of the loop body for the first row of sweep.rows: deletedCount++ at
\* the end of the try block, or errorCount++ in its catch; then the files of
\* the next row are unlinked and its DELETE is issued, or the function returns
\* {deleted: deletedCount, errors: errorCount}
SweepAdvance_abortsOnError(counted) ==
  LET video == Head(sweep.rows)
      s1 == IF counted
            THEN [sweep EXCEPT !.deletedCount = @ + 1, !.deleted = @ \cup {video.id}]
            ELSE [sweep EXCEPT !.errorCount = @ + 1]
  IN  IF Len(sweep.rows) > 1 /\ counted
      THEN /\ sweep' = [s1 EXCEPT !.pc = "deleteVideo", !.rows = Tail(@)]
           /\ disk' = disk \ FilesOf(sweep.rows[2])
      ELSE /\ sweep' = [s1 EXCEPT !.pc = "idle", !.rows = <<>>]
           /\ disk' = disk

SweepAdvance(counted) ==
  LET video == Head(sweep.rows)
      s1 == IF counted
            THEN [sweep EXCEPT !.deletedCount = @ + 1, !.deleted = @ \cup {video.id}]
            ELSE [sweep EXCEPT !.errorCount = @ + 1]
  IN  IF Len(sweep.rows) > 1
      THEN /\ sweep' = [s1 EXCEPT !.pc = "deleteVideo", !.rows = Tail(@)]
           /\ disk' = disk \ FilesOf(sweep.rows[2])
      ELSE /\ sweep' = [s1 EXCEPT !.pc = "idle", !.rows = <<>>]
           /\ disk' = disk

\* lines 26-51: the SELECT resolves with expired rows; the loop starts, the
\* files of the first row are unlinked and its DELETE is issued
CleanupExpiredSelect(rs) ==
  /\ sweep.pc = "idle"
  /\ Len(rs) > 0
  /\ sweep' = [NoSweep EXCEPT !.pc = "deleteVideo", !.rows = rs,
                              !.selected = Len(rs)]
  /\ disk' = disk \ FilesOf(rs[1])
  /\ UNCHANGED <<processingQueue, isProcessing, pc, job, uniqueSlug, expiresAt,
                 caught, store, rowsInserted, nanoidCount, now, enqueued,
                 started, finished, terminal, lastOutcome, rowHist, lastWrite,
                 sessionError, result, leadsTable, rerunOfFailed, browsers, statusReq, vslVars,
                 renderVars, captureVars, storageVars>>

\* line 51: DELETE FROM generated_videos WHERE id = $1 resolves; the DELETE of
\* the lead is issued
SweepDeleteVideoReturns ==
  /\ sweep.pc = "deleteVideo"
  /\ LET video == Head(sweep.rows)
         gone == {r \in store : r.id = video.id}
     IN
     /\ store' = DeleteById(store, video.id)
     /\ rowHist' = [l \in Leads |->
                      IF \E r \in gone : r.lead_id = l THEN {} ELSE rowHist[l]]
     /\ lastWrite' = [l \in Leads |->
                        IF \E r \in gone : r.lead_id = l THEN NoWrite ELSE lastWrite[l]]
  /\ sweep' = [sweep EXCEPT !.pc = "deleteLead"]
  /\ UNCHANGED <<processingQueue, isProcessing, pc, job, uniqueSlug, expiresAt,
                 caught, rowsInserted, nanoidCount, now, enqueued, started,
                 finished, terminal, lastOutcome, sessionError, result,
                 leadsTable, rerunOfFailed, browsers, statusReq, pipelineVars,
                 renderVars, captureVars, storageVars>>

\* line 51 rejects: the catch of the loop body counts an error, next row
SweepDeleteVideoThrows ==
  /\ sweep.pc = "deleteVideo"
  /\ SweepAdvance(FALSE)
  /\ UNCHANGED <<processingQueue, isProcessing, pc, job, uniqueSlug, expiresAt,
                 caught, store, rowsInserted, nanoidCount, now, enqueued,
                 started, finished, terminal, lastOutcome, rowHist, lastWrite,
                 sessionError, result, leadsTable, rerunOfFailed, browsers, statusReq, vslVars,
                 renderVars, captureVars, storageVars>>

\* line 55: DELETE FROM leads WHERE id = $1 resolves; next row
SweepDeleteLeadReturns ==
  /\ sweep.pc = "deleteLead"
  /\ LET l == Head(sweep.rows).lead_id IN
     /\ leadsTable' = leadsTable \ {l}
     /\ store' = DeleteLead(store, l)
     /\ rowHist' = [rowHist EXCEPT ![l] = IF RowsOf(store, l) # {} THEN {} ELSE @]
     /\ lastWrite' = [lastWrite EXCEPT ![l] =
                        IF RowsOf(store, l) # {} THEN NoWrite ELSE @]
  /\ SweepAdvance(TRUE)
  /\ UNCHANGED <<processingQueue, isProcessing, pc, job, uniqueSlug, expiresAt,
                 caught, rowsInserted, nanoidCount, now, enqueued, started,
                 finished, terminal, lastOutcome, sessionError, result,
                 rerunOfFailed, browsers, statusReq, vslVars,
                 renderVars, captureVars, storageVars>>

\* line 55 rejects: the catch of the loop body counts an error, next row
SweepDeleteLeadThrows ==
  /\ sweep.pc = "deleteLead"
  /\ SweepAdvance(FALSE)
  /\ UNCHANGED <<processingQueue, isProcessing, pc, job, uniqueSlug, expiresAt,
                 caught, store, rowsInserted, nanoidCount, now, enqueued,
                 started, finished, terminal, lastOutcome, rowHist, lastWrite,
                 sessionError, result, leadsTable, rerunOfFailed, browsers, statusReq, vslVars,
                 renderVars, captureVars, storageVars>>

\* time passes: the clock moves on by more than one retention period; no
\* awaited call of the worker lasts that long
Tick ==
  /\ \A d \in DrainIds : pc[d] = "idle"
  /\ now + RETENTION_DAYS + 1 <= MaxTicks * (RETENTION_DAYS + 1)
  /\ now' = now + RETENTION_DAYS + 1
  /\ UNCHANGED <<processingQueue, isProcessing, pc, job, uniqueSlug, expiresAt,
                 caught, store, rowsInserted, nanoidCount, enqueued, started,
                 finished, terminal, lastOutcome, rowHist, lastWrite,
                 sessionError, result, leadsTable, sweep, rerunOfFailed, browsers, statusReq,
                 pipelineVars,
                 renderVars, captureVars, storageVars>>

\* no call of the function has been made yet
NoGen == [called |-> FALSE]
NoScroll == [called |-> FALSE]
NoOverlay == [called |-> FALSE]
NoLimitRun == [called |-> FALSE]

Init ==
  /\ processingQueue = <<>>
  /\ isProcessing = FALSE
  /\ pc = [d \in DrainIds |-> "idle"]
  /\ job = [d \in DrainIds |-> NoJob]
  /\ uniqueSlug = [d \in DrainIds |-> 0]
  /\ expiresAt = [d \in DrainIds |-> 0]
  /\ caught = [d \in DrainIds |-> NULL]
  /\ store = {}
  /\ rowsInserted = 0
  /\ nanoidCount = 0
  /\ now = 0
  /\ enqueued = 0
  /\ started = <<>>
  /\ finished = <<>>
  /\ terminal = [j \in 1..MaxJobs |-> {}]
  /\ lastOutcome = [d \in DrainIds |-> "none"]
  /\ rowHist = [l \in Leads |-> {}]
  /\ lastWrite = [l \in Leads |-> NoWrite]
  /\ sessionError = FALSE
  /\ result = [d \in DrainIds |-> "none"]
  /\ leadsTable = Leads
  /\ sweep = NoSweep
  /\ rerunOfFailed = [d \in DrainIds |-> FALSE]
  /\ browsers = {}
  /\ statusReq = NoStatusRequest
  /\ vslPc = "idle"
  /\ vslLead = 0
  /\ vslCalls = <<>>
  /\ vslError = "none"
  /\ vslResult = "none"
  /\ rmFailed = FALSE
  /\ disk = {}
  /\ vslRuns = 0
  /\ renderPc = "idle"
  /\ snapshot = "videoProcessor.js"
  /\ gen = NoGen
  /\ scroll = NoScroll
  /\ overlay = NoOverlay
  /\ capPc = "idle"
  /\ capPage = 0
  /\ capResult = <<"none">>
  /\ pages = {}
  /\ pagesOpened = 0
  /\ capOutcomes = <<>>
  /\ closeFailed = FALSE
  /\ limitPc = "idle"
  /\ limit = NoLimitRun
  /\ volumeMB = <<>>
  /\ limitDb = [generated_videos |-> {}, leads |-> {}]

Next ==
  \/ \E c \in Campaigns : \E ls \in LeadRows(c) : Generate(c, ls)
  \/ \E d \in DrainIds : InitReturns(d)
  \/ \E d \in DrainIds : InitThrows(d)
  \/ \E d \in DrainIds : UpsertProcessingReturns(d)
  \/ \E d \in DrainIds : UpsertProcessingThrows(d)
  \/ \E d \in DrainIds : GenerateVSLSucceeds(d)
  \/ \E d \in DrainIds : GenerateVSLFails(d)
  \/ \E d \in DrainIds : UpdateCompletedReturns(d)
  \/ \E d \in DrainIds : UpdateCompletedThrows(d)
  \/ \E d \in DrainIds : UpsertFailedReturns(d)
  \/ \E d \in DrainIds : UpsertFailedThrows(d)
  \/ \E d \in DrainIds : CloseReturns(d)
  \/ \E d \in DrainIds, closed \in BOOLEAN : CloseThrows(d, closed)
  \/ \E r \in store : DeleteVideo(r)
  \/ Tick

Spec == Init /\ [][Next]_vars

\* every awaited call of the worker eventually resolves or rejects
FairSpec == Spec /\ \A d \in DrainIds : WF_vars(WorkerStep(d))

\* the worker and the handlers together with the expiry sweeper, which the
\* hourly timer and POST /storage/cleanup start at any time
SweepNext ==
  \/ Next
  \/ \E rs \in ExpiredVideos(store, now) : CleanupExpiredSelect(rs)
  \/ SweepDeleteVideoReturns
  \/ SweepDeleteVideoThrows
  \/ SweepDeleteLeadReturns
  \/ SweepDeleteLeadThrows

SweepSpec == Init /\ [][SweepNext]_vars

\* ---- the sweeper, the delete route and the status endpoint on the table ----
\* ---- the worker has left                                                ----

\* the status of the row a job has left for its lead: completed or failed,
\* or processing when its last status write was rejected
JobOutcomes ==
  UNION {[ls -> {"processing", "completed", "failed"}] : ls \in SUBSET Leads}

\* the row of lead l after a job that ended with status st
RowAfter(l, st) ==
  LET exp == getExpirationDate(0)
      c == CampaignOf(l)
      processing == UpsertProcessing({}, l, l, c, l, exp)
  IN  CASE st = "completed" -> UpdateCompleted(processing, l)
        [] st = "failed" ->
             UpsertFailed(processing, l, l, c, l, "pipeline error", exp)
        [] OTHER -> processing

\* the files generateVSL has left in the persistent directories for a
\* completed row (the screenshot was in the workspace, which it removed)
ArtifactsOf(l) == {VideoPath(l), PreviewPath(l), ThumbnailPath(l)}

\* the worker has processed one job for each lead of DOMAIN f on day 0 and is
\* idle again: the table holds the rows the jobs left, the disk their files
WorkerHasRun(f) ==
  /\ DOMAIN f # {}
  /\ store = {} /\ rowsInserted = 0 /\ now = 0 /\ disk = {}
  /\ sweep = NoSweep /\ statusReq = NoStatusRequest
  /\ \A d \in DrainIds : pc[d] = "idle"
  /\ store' = UNION {RowAfter(l, f[l]) : l \in DOMAIN f}
  /\ rowsInserted' = NumLeads
  /\ nanoidCount' = NumLeads
  /\ disk' = UNION {ArtifactsOf(l) : l \in {k \in DOMAIN f : f[k] = "completed"}}
  /\ UNCHANGED <<processingQueue, isProcessing, pc, job, uniqueSlug, expiresAt,
                 caught, now, enqueued, started, finished, terminal,
                 lastOutcome, rowHist, lastWrite, sessionError, result,
                 leadsTable, sweep, rerunOfFailed, browsers, statusReq,
                 vslVars, renderVars, captureVars, storageVars>>

ExpiryNext ==
  \/ \E f \in JobOutcomes : WorkerHasRun(f)
  \/ Tick
  \/ \E rs \in ExpiredVideos(store, now) : CleanupExpiredSelect(rs)
  \/ SweepDeleteVideoReturns
  \/ SweepDeleteVideoThrows
  \/ SweepDeleteLeadReturns
  \/ SweepDeleteLeadThrows
  \/ \E r \in store : DeleteVideo(r)
  \/ \E r \in store : DeleteVideoThrows(r)
  \/ \E c \in Campaigns : GetStatusVideoQueryReturns(c)
  \/ GetStatusLeadsQueryReturns

ExpirySpec == Init /\ [][ExpiryNext]_vars

\* ---- VideoProcessor.generateVSL ----

TempDir(l) == <<"temp", l>>

\* the awaits inside the try block of generateVSL
TryPcs == {"getVideoDuration", "captureWebsite", "createScrollingBackground",
           "createVideoWithOverlay", "mkdirPreviews", "createPreview",
           "mkdirThumbnails", "createThumbnail", "rmTemp"}

\* the next call is issued and generateVSL is suspended at it
VslCall(op) ==
  /\ vslPc' = op
  /\ vslCalls' = Append(vslCalls, op)

\* control enters the catch block with the error of call op: fs.rm is issued
VslCatch(op) ==
  /\ vslPc' = "rmTempCatch"
  /\ vslError' = op

\* generateVSL returns or rejects
VslEnd(res) ==
  /\ vslPc' = "idle"
  /\ vslResult' = res

\* generateVSL(config) is called: fs.mkdir(tempDir) is issued
GenerateVSL(l) ==
  /\ vslPc = "idle"
  /\ vslRuns < MaxRuns
  /\ vslRuns' = vslRuns + 1
  /\ vslLead' = l
  /\ vslPc' = "mkdirTemp"
  /\ vslCalls' = <<>>
  /\ vslError' = "none"
  /\ vslResult' = "none"
  /\ rmFailed' = FALSE
  /\ UNCHANGED <<disk, workerVars,
                 renderVars, captureVars, storageVars>>

\* fs.mkdir(tempDir) resolves: the try block is entered
MkdirTempReturns ==
  /\ vslPc = "mkdirTemp"
  /\ disk' = disk \cup {TempDir(vslLead)}
  /\ VslCall("getVideoDuration")
  /\ UNCHANGED <<vslLead, vslError, vslResult, rmFailed, vslRuns, workerVars,
                 renderVars, captureVars, storageVars>>

\* fs.mkdir(tempDir) rejects outside the try block: generateVSL rejects
MkdirTempThrows ==
  /\ vslPc = "mkdirTemp"
  /\ VslEnd("rejected")
  /\ vslError' = "mkdirTemp"
  /\ UNCHANGED <<vslLead, vslCalls, rmFailed, disk, vslRuns, workerVars,
                 renderVars, captureVars, storageVars>>

\* step 1: getVideoDuration resolves; captureWebsite is called
GetVideoDurationReturns ==
  /\ vslPc = "getVideoDuration"
  /\ VslCall("captureWebsite")
  /\ UNCHANGED <<vslLead, vslError, vslResult, rmFailed, disk, vslRuns,
                 workerVars,
                 renderVars, captureVars, storageVars>>

\* step 2: captureWebsite resolves, on success with the screenshot written to
\* the workspace; on {success: false} an Error is thrown
CaptureWebsiteReturns_ignoresFailure(success) ==
  /\ vslPc = "captureWebsite"
  /\ VslCall("createScrollingBackground")
  /\ vslError' = IF success THEN vslError ELSE "captureWebsite"
  /\ disk' = IF success THEN disk \cup {ScreenshotPath(vslLead)} ELSE disk
  /\ UNCHANGED <<vslLead, vslResult, rmFailed, vslRuns, workerVars,
                 renderVars, captureVars, storageVars>>

CaptureWebsiteReturns_overlayFirst(success) ==
  /\ vslPc = "captureWebsite"
  /\ IF success
     THEN VslCall("createVideoWithOverlay") /\ UNCHANGED vslError
     ELSE VslCatch("captureWebsite") /\ UNCHANGED vslCalls
  /\ disk' = IF success THEN disk \cup {ScreenshotPath(vslLead)} ELSE disk
  /\ UNCHANGED <<vslLead, vslResult, rmFailed, vslRuns, workerVars,
                 renderVars, captureVars, storageVars>>

CaptureWebsiteReturns(success) ==
  /\ vslPc = "captureWebsite"
  /\ IF success
     THEN VslCall("createScrollingBackground") /\ UNCHANGED vslError
     ELSE VslCatch("captureWebsite") /\ UNCHANGED vslCalls
  /\ disk' = IF success THEN disk \cup {ScreenshotPath(vslLead)} ELSE disk
  /\ UNCHANGED <<vslLead, vslResult, rmFailed, vslRuns, workerVars,
                 renderVars, captureVars, storageVars>>

\* step 3: createScrollingBackground resolves; createVideoWithOverlay is called
CreateScrollingBackgroundReturns ==
  /\ vslPc = "createScrollingBackground"
  /\ VslCall("createVideoWithOverlay")
  /\ UNCHANGED <<vslLead, vslError, vslResult, rmFailed, disk, vslRuns,
                 workerVars,
                 renderVars, captureVars, storageVars>>

\* step 4: createVideoWithOverlay resolves, the final video is written;
\* fs.mkdir of the previews directory is issued
CreateVideoWithOverlayReturns ==
  /\ vslPc = "createVideoWithOverlay"
  /\ disk' = disk \cup {VideoPath(vslLead)}
  /\ vslPc' = "mkdirPreviews"
  /\ UNCHANGED <<vslLead, vslCalls, vslError, vslResult, rmFailed, vslRuns,
                 workerVars,
                 renderVars, captureVars, storageVars>>

\* step 5: fs.mkdir resolves; createPreview is called
MkdirPreviewsReturns ==
  /\ vslPc = "mkdirPreviews"
  /\ VslCall("createPreview")
  /\ UNCHANGED <<vslLead, vslError, vslResult, rmFailed, disk, vslRuns,
                 workerVars,
                 renderVars, captureVars, storageVars>>

\* step 5: createPreview resolves, the preview is written; fs.mkdir of the
\* thumbnails directory is issued
CreatePreviewReturns ==
  /\ vslPc = "createPreview"
  /\ disk' = disk \cup {PreviewPath(vslLead)}
  /\ vslPc' = "mkdirThumbnails"
  /\ UNCHANGED <<vslLead, vslCalls, vslError, vslResult, rmFailed, vslRuns,
                 workerVars,
                 renderVars, captureVars, storageVars>>

\* step 6: fs.mkdir resolves; createThumbnail is called
MkdirThumbnailsReturns ==
  /\ vslPc = "mkdirThumbnails"
  /\ VslCall("createThumbnail")
  /\ UNCHANGED <<vslLead, vslError, vslResult, rmFailed, disk, vslRuns,
                 workerVars,
                 renderVars, captureVars, storageVars>>

\* step 6: createThumbnail resolves, the thumbnail is written; fs.rm(tempDir)
\* is issued
CreateThumbnailReturns ==
  /\ vslPc = "createThumbnail"
  /\ disk' = disk \cup {ThumbnailPath(vslLead)}
  /\ vslPc' = "rmTemp"
  /\ UNCHANGED <<vslLead, vslCalls, vslError, vslResult, rmFailed, vslRuns,
                 workerVars,
                 renderVars, captureVars, storageVars>>

\* fs.rm(tempDir, {recursive}) resolves in the try block: the workspace and
\* the screenshot in it are gone; {success: true, ...} is returned
RmTempReturns ==
  /\ vslPc = "rmTemp"
  /\ disk' = disk \ {TempDir(vslLead), ScreenshotPath(vslLead)}
  /\ VslEnd("success")
  /\ UNCHANGED <<vslLead, vslCalls, vslError, rmFailed, vslRuns, workerVars,
                 renderVars, captureVars, storageVars>>

\* an awaited call of the try block rejects: control goes to the catch block
AwaitThrows ==
  /\ vslPc \in TryPcs
  /\ VslCatch(vslPc)
  /\ rmFailed' = (vslPc = "rmTemp")
  /\ UNCHANGED <<vslLead, vslCalls, vslResult, disk, vslRuns, workerVars,
                 renderVars, captureVars, storageVars>>

\* fs.rm(tempDir) resolves in the catch block: {success: false, error} is returned
RmTempCatchReturns_keepsWorkspace ==
  /\ vslPc = "rmTempCatch"
  /\ rmFailed' = FALSE
  /\ VslEnd("failure")
  /\ UNCHANGED <<vslLead, vslCalls, vslError, disk, vslRuns, workerVars,
                 renderVars, captureVars, storageVars>>

RmTempCatchReturns ==
  /\ vslPc = "rmTempCatch"
  /\ disk' = disk \ {TempDir(vslLead), ScreenshotPath(vslLead)}
  /\ rmFailed' = FALSE
  /\ VslEnd("failure")
  /\ UNCHANGED <<vslLead, vslCalls, vslError, vslRuns, workerVars,
                 renderVars, captureVars, storageVars>>

\* fs.rm(tempDir) rejects in the catch block: .catch(() => {}) swallows it and
\* {success: false, error} is returned
RmTempCatchThrows ==
  /\ vslPc = "rmTempCatch"
  /\ rmFailed' = TRUE
  /\ VslEnd("failure")
  /\ UNCHANGED <<vslLead, vslCalls, vslError, disk, vslRuns, workerVars,
                 renderVars, captureVars, storageVars>>

PipelineNext ==
  \/ \E l \in Leads : GenerateVSL(l)
  \/ MkdirTempReturns
  \/ MkdirTempThrows
  \/ GetVideoDurationReturns
  \/ \E success \in BOOLEAN : CaptureWebsiteReturns(success)
  \/ CreateScrollingBackgroundReturns
  \/ CreateVideoWithOverlayReturns
  \/ MkdirPreviewsReturns
  \/ CreatePreviewReturns
  \/ MkdirThumbnailsReturns
  \/ CreateThumbnailReturns
  \/ RmTempReturns
  \/ AwaitThrows
  \/ RmTempCatchReturns
  \/ RmTempCatchThrows

\* generateVSL called some number of times on one VideoProcessor, one call at
\* a time, as processVideoJob calls it
PipelineSpec == Init /\ [][PipelineNext]_vars

\* ---- the filter computations of VideoProcessor ----
\* Durations are in whole seconds, pixel sizes in pixels.  Each function is
\* exercised on its own, with the arguments its callers can pass.

VIEWPORT_WIDTH == 1280
VIEWPORT_HEIGHT == 720

\* the revisions of videoProcessor.js in the repository
Snapshots == {"videoProcessor.js", "part_001", "part_002"}

\* a JavaScript value that is a number or undefined
NoNum == <<>>
Num(n) == <<n>>
UNDEFINED == "undefined"

Min(a, b) == IF a <= b THEN a ELSE b
Max(a, b) == IF a >= b THEN a ELSE b

\* v || d for a number or undefined v: undefined and 0 are falsy
OrDefault(v, d) == IF v = NoNum \/ v = Num(0) THEN d ELSE v[1]

Styles == {"small_bubble", "big_bubble", "full_screen"}
Positions == {"bottom_left", "bottom_right", "top_left", "top_right"}

\* the inputs the functions are exercised with
IntroDurations == {3, 20, 30}
ConfiguredTimes == {NoNum, Num(5)}
ConfiguredScrolls == {NoNum, Num(10)}
ConfiguredDelays == {NoNum, Num(3)}

\* job.campaign: the campaign as it was configured
CampaignRows ==
  [video_style : Styles, video_position : Positions,
   display_delay : {Num(10)},
   fullscreen_transition_time : ConfiguredTimes,
   scroll_duration : ConfiguredScrolls]

\* config.settings of a generateVSL call
SettingsObjects ==
  [video_style : Styles \cup {UNDEFINED},
   video_position : Positions \cup {UNDEFINED},
   display_delay : ConfiguredDelays,
   fullscreen_transition_time : ConfiguredTimes,
   scroll_duration : ConfiguredScrolls]

NoCampaign == [none |-> TRUE]

\* processVideoJob: the settings object it passes to generateVSL holds
\* video_style, video_position, video_shape and display_delay only
JobSettings(c) ==
  [video_style |-> c.video_style,
   video_position |-> c.video_position,
   display_delay |-> c.display_delay,
   fullscreen_transition_time |-> NoNum,
   scroll_duration |-> NoNum]

\* generateVSL: const scrollDuration; part_002 derives it from the intro video
\* (70% of its duration, between 8 and 45 seconds)
ScrollDurationOf(snap, s, d) ==
  IF snap = "part_002"
  THEN Min(Max((7 * d) \div 10, 8), 45)
  ELSE OrDefault(s.scroll_duration, 15)

\* generateVSL: const videoStyle = settings.video_style || 'small_bubble';
\* part_001 passes settings.video_style on, and the destructuring default of
\* createVideoWithOverlay replaces undefined
VideoStyleOf(s) ==
  IF s.video_style = UNDEFINED THEN "small_bubble" ELSE s.video_style

\* generateVSL: totalBackgroundDuration; part_001 passes the scroll duration
\* alone, part_002 the intro duration plus one second for every style
TotalBackgroundDurationOf_scrollOnly(snap, style, S, d) == S

TotalBackgroundDurationOf_bufferSubtracted(snap, style, S, d) ==
  IF style \in {"small_bubble", "big_bubble"} THEN d - 1 ELSE S

TotalBackgroundDurationOf(snap, style, S, d) ==
  CASE snap = "part_001" -> S
    [] snap = "part_002" -> d + 1
    [] OTHER -> IF style \in {"small_bubble", "big_bubble"}
                THEN Max(S, d + 1)
                ELSE S

\* generateVSL: the config it passes to createVideoWithOverlay (part_002
\* passes no displayDelay, and its createVideoWithOverlay reads none)
OverlayConfigOf(snap, s) ==
  [position |-> s.video_position,
   style |-> VideoStyleOf(s),
   displayDelay |-> OrDefault(s.display_delay, 2),
   fullscreenTransitionTime |-> OrDefault(s.fullscreen_transition_time, 20)]

\* the values one generateVSL call computes from its config
GenValues(snap, c, s, d) ==
  LET S == ScrollDurationOf(snap, s, d)
      style == VideoStyleOf(s)
  IN  [campaign |-> c,
       settings |-> s,
       introVideoDuration |-> d,
       scrollDuration |-> S,
       videoStyle |-> style,
       totalBackgroundDuration |->
         TotalBackgroundDurationOf(snap, style, S, d),
       fullscreenTransitionTime |->
         OverlayConfigOf(snap, s).fullscreenTransitionTime]

\* processVideoJob calls generateVSL for a job of campaign c; the intro video
\* lasts d seconds
ProcessVideoJobCallsGenerateVSL(snap, c, d) ==
  /\ renderPc = "idle"
  /\ renderPc' = "generateVSL"
  /\ snapshot' = snap
  /\ gen' = GenValues(snap, c, JobSettings(c), d)
  /\ UNCHANGED <<scroll, overlay, workerVars, pipelineVars, captureVars,
                 storageVars>>

\* generateVSL is called with a settings object of any content
GenerateVSLCalled(snap, s, d) ==
  /\ renderPc = "idle"
  /\ renderPc' = "generateVSL"
  /\ snapshot' = snap
  /\ gen' = GenValues(snap, NoCampaign, s, d)
  /\ UNCHANGED <<scroll, overlay, workerVars, pipelineVars, captureVars,
                 storageVars>>

\* ---- createScrollingBackground: the crop offset, frame by frame ----
\* The frames are taken on a grid of GridPerStep points per step of the
\* scroll (per scroll duration where the scroll has no steps): frame a is at
\* time a * scrollDuration / GridPoints seconds.

GridPerStep == 10 * Refine

\* the arguments generateVSL passes to createScrollingBackground
BackgroundCalls(snap) ==
  {[scrollDuration |-> GenValues(snap, NoCampaign, s, d).scrollDuration,
    totalDuration |-> GenValues(snap, NoCampaign, s, d).totalBackgroundDuration]
     : s \in SettingsObjects, d \in IntroDurations}

\* the height of the screenshot after scale=1280:-1
ImageHeights == {600, 720, 1500}

\* part_002: numSteps = Math.max(3, Math.ceil(scrollDuration / 2.5))
numSteps(S) == Max(3, (2 * S + 4) \div 5)

\* grid points per scroll duration
GridPoints(snap, S) ==
  IF snap = "part_002" THEN GridPerStep * numSteps(S) ELSE GridPerStep

\* part_002: scrollPhase = stepDuration * 0.7, in grid points
scrollPhase == (7 * GridPerStep) \div 10

\* p*p*(3-2*p) for p = m/q, as a fraction of q^3
Smoothstep(m, q) == m * m * (3 * q - 2 * m)

\* the scroll progress at frame a, as a fraction num/den
\* videoProcessor.js: smoothstep of min(t,S)/S; part_001: smoothstep of t/S;
\* part_002: (floor(t/step) + smoothstep within the scroll phase, else 1)/N
\* while t < S, and 1 afterwards
Progress_linearSteps(snap, S, a) ==
  LET Q == GridPoints(snap, S)
  IN  [num |-> IF a < Q THEN (a * 3) \div 2 ELSE Q, den |-> Q]

Progress_wrapsAround(snap, S, a) ==
  LET Q == GridPoints(snap, S)
      m == a % Q
  IN  [num |-> Smoothstep(m, Q), den |-> Q * Q * Q]

Progress(snap, S, a) ==
  LET Q == GridPoints(snap, S)
      N == numSteps(S)
      k == a \div GridPerStep
      m == a % GridPerStep
      sp3 == scrollPhase * scrollPhase * scrollPhase
  IN  CASE snap = "part_002" ->
             IF a < Q
             THEN [num |-> k * sp3 + (IF m < scrollPhase
                                      THEN Smoothstep(m, scrollPhase)
                                      ELSE sp3),
                   den |-> N * sp3]
             ELSE [num |-> 1, den |-> 1]
        [] snap = "part_001" ->
             [num |-> Smoothstep(a, Q), den |-> Q * Q * Q]
        [] OTHER ->
             [num |-> Smoothstep(Min(a, Q), Q), den |-> Q * Q * Q]

\* the crop filter's y: min(ih-720, progress*(ih-720)), as a fraction
CropY(p, ih) ==
  [num |-> Min((ih - VIEWPORT_HEIGHT) * p.den, p.num * (ih - VIEWPORT_HEIGHT)),
   den |-> p.den]

\* the frame at grid point a of the running createScrollingBackground
ScrollFrameAt(sc, snap, a) ==
  LET p == Progress(snap, sc.scrollDuration, a)
  IN  [sc EXCEPT !.frame = a, !.progress = p, !.cropY = CropY(p, sc.ih)]

\* createScrollingBackground is called on a screenshot of height h; ffmpeg
\* evaluates the crop expression for the frame at t = 0
CreateScrollingBackgroundCalled(snap, call, h) ==
  /\ renderPc = "idle"
  /\ renderPc' = "createScrollingBackground"
  /\ snapshot' = snap
  /\ scroll' = ScrollFrameAt([scrollDuration |-> call.scrollDuration,
                              totalDuration |-> call.totalDuration,
                              ih |-> h, frame |-> 0,
                              progress |-> [num |-> 0, den |-> 1],
                              cropY |-> [num |-> 0, den |-> 1]], snap, 0)
  /\ UNCHANGED <<gen, overlay, workerVars, pipelineVars, captureVars,
                 storageVars>>

\* ffmpeg evaluates the crop expression for the next frame; -t ends the
\* output at effectiveTotalDuration = totalDuration || scrollDuration
ScrollFrame ==
  LET a == scroll.frame + 1
      S == scroll.scrollDuration
      effectiveTotalDuration ==
        IF scroll.totalDuration = 0 THEN S ELSE scroll.totalDuration
  IN  /\ renderPc = "createScrollingBackground"
      /\ a * S < effectiveTotalDuration * GridPoints(snapshot, S)
      /\ scroll' = ScrollFrameAt(scroll, snapshot, a)
      /\ UNCHANGED <<renderPc, snapshot, gen, overlay, workerVars,
                     pipelineVars, captureVars,
                 storageVars>>

\* ---- createVideoWithOverlay: the bubble's box and the two phases ----
\* The output frames are taken TicksPerSecond to the second, up to
\* MaxOutputTime seconds.

\* the configs generateVSL passes to createVideoWithOverlay
OverlayCalls(snap) == {OverlayConfigOf(snap, s) : s \in SettingsObjects}

\* overlaySize: 400x400 for big_bubble, else 200x200
OverlaySize(style) ==
  IF style = "big_bubble"
  THEN [width |-> 400, height |-> 400]
  ELSE [width |-> 200, height |-> 200]

\* the size the corner position is computed from: overlaySize, but part_001
\* uses bubbleSize (200x200) for every style
PositionSize(snap, style) ==
  IF snap = "part_001"
  THEN [width |-> 200, height |-> 200]
  ELSE OverlaySize(style)

\* switch (position): posX, posY with padding = 20; default is bottom_left
OverlayPosition(snap, position, style) ==
  LET size == PositionSize(snap, style)
      padding == 20
      right == VIEWPORT_WIDTH - size.width - padding
      bottom == VIEWPORT_HEIGHT - size.height - padding
  IN  CASE position = "bottom_right" -> [x |-> right, y |-> bottom]
        [] position = "top_left" -> [x |-> padding, y |-> padding]
        [] position = "top_right" -> [x |-> right, y |-> padding]
        [] OTHER -> [x |-> padding, y |-> bottom]

\* the rectangle the scaled bubble covers on the frame
BubbleBox(snap, cfg) ==
  LET pos == OverlayPosition(snap, cfg.position, cfg.style)
      size == OverlaySize(cfg.style)
  IN  [x |-> pos.x, y |-> pos.y, width |-> size.width, height |-> size.height]

\* the enable expressions of the two overlay filters at tick b (t = b /
\* TicksPerSecond): bubble lt(t,T), part_001 gte(t,delay)*lt(t,T); full frame
\* gte(t,T); the bubble styles have the bubble overlay only
PhaseEnables_gapAtCut(snap, cfg, b) ==
  LET T == cfg.fullscreenTransitionTime * TicksPerSecond
  IN  [bubble |-> b < T, full |-> cfg.style = "full_screen" /\ b > T]

PhaseEnables(snap, cfg, b) ==
  LET T == cfg.fullscreenTransitionTime * TicksPerSecond
      delay == cfg.displayDelay * TicksPerSecond
      shown == snap # "part_001" \/ b >= delay
  IN  IF cfg.style = "full_screen"
      THEN [bubble |-> shown /\ b < T, full |-> b >= T]
      ELSE [bubble |-> shown, full |-> FALSE]

\* createVideoWithOverlay is called: the box is computed, and ffmpeg
\* evaluates the enable expressions for the frame at t = 0
CreateVideoWithOverlayCalled(snap, cfg) ==
  /\ renderPc = "idle"
  /\ renderPc' = "createVideoWithOverlay"
  /\ snapshot' = snap
  /\ overlay' = [config |-> cfg, box |-> BubbleBox(snap, cfg), frame |-> 0,
                 enabled |-> PhaseEnables(snap, cfg, 0)]
  /\ UNCHANGED <<gen, scroll, workerVars, pipelineVars, captureVars,
                 storageVars>>

\* ffmpeg evaluates the enable expressions for the next output frame
OverlayFrame ==
  LET b == overlay.frame + 1
  IN  /\ renderPc = "createVideoWithOverlay"
      /\ b <= MaxOutputTime * TicksPerSecond
      /\ overlay' = [overlay EXCEPT
                       !.frame = b,
                       !.enabled = PhaseEnables(snapshot, overlay.config, b)]
      /\ UNCHANGED <<renderPc, snapshot, gen, scroll, workerVars,
                     pipelineVars, captureVars,
                 storageVars>>

\* the functions of VideoProcessor, each exercised on its own
RenderNext ==
  \/ \E snap \in Snapshots, c \in CampaignRows, d \in IntroDurations :
       ProcessVideoJobCallsGenerateVSL(snap, c, d)
  \/ \E snap \in Snapshots, s \in SettingsObjects, d \in IntroDurations :
       GenerateVSLCalled(snap, s, d)
  \/ \E snap \in Snapshots : \E call \in BackgroundCalls(snap) :
       \E h \in ImageHeights : CreateScrollingBackgroundCalled(snap, call, h)
  \/ ScrollFrame
  \/ \E snap \in Snapshots : \E cfg \in OverlayCalls(snap) :
       CreateVideoWithOverlayCalled(snap, cfg)
  \/ OverlayFrame

RenderSpec == Init /\ [][RenderNext]_vars

\* ---- VideoProcessor.captureWebsite and the tabs of its browser ----
\* pages holds the tabs captureWebsite has opened; the blank tab the browser
\* starts with is not counted.

\* the awaits inside the try block, in order
CaptureSteps == <<"setViewport", "goto", "settle", "body", "boundingBox",
                  "dispose", "screenshot">>

StepIndex(step) == CHOOSE i \in DOMAIN CaptureSteps : CaptureSteps[i] = step
IsCaptureStep(step) == \E i \in DOMAIN CaptureSteps : CaptureSteps[i] = step

\* captureWebsite returns or rejects: the caller goes on
CaptureEnds(outcome) ==
  /\ capPc' = "idle"
  /\ capOutcomes' = Append(capOutcomes, outcome)

\* captureWebsite(url, outputPath) is called: browser.newPage() is issued
CaptureWebsiteCalled ==
  /\ capPc = "idle"
  /\ Len(capOutcomes) < MaxCaptures
  /\ capPc' = "newPage"
  /\ capResult' = <<"none">>
  /\ UNCHANGED <<capPage, pages, pagesOpened, capOutcomes, closeFailed,
                 workerVars, pipelineVars, renderVars,
                 storageVars>>

\* browser.newPage() resolves: the tab is open, the try block is entered
NewPageReturns ==
  /\ capPc = "newPage"
  /\ pagesOpened' = pagesOpened + 1
  /\ capPage' = pagesOpened + 1
  /\ pages' = pages \cup {pagesOpened + 1}
  /\ capPc' = CaptureSteps[1]
  /\ UNCHANGED <<capResult, capOutcomes, closeFailed, workerVars,
                 pipelineVars, renderVars,
                 storageVars>>

\* browser.newPage() rejects outside the try block: no tab was opened and
\* captureWebsite rejects
NewPageThrows ==
  /\ capPc = "newPage"
  /\ CaptureEnds(<<"rejected", "newPage">>)
  /\ UNCHANGED <<capPage, capResult, pages, pagesOpened, closeFailed,
                 workerVars, pipelineVars, renderVars,
                 storageVars>>

\* an await of the try block resolves; after the screenshot the return
\* statement holds {success: true} and the finally block calls page.close()
CaptureStepReturns ==
  /\ IsCaptureStep(capPc)
  /\ IF StepIndex(capPc) < Len(CaptureSteps)
     THEN /\ capPc' = CaptureSteps[StepIndex(capPc) + 1]
          /\ UNCHANGED capResult
     ELSE /\ capPc' = "close"
          /\ capResult' = <<"success">>
  /\ UNCHANGED <<capPage, pages, pagesOpened, capOutcomes, closeFailed,
                 workerVars, pipelineVars, renderVars,
                 storageVars>>

\* an await of the try block rejects (the two-second timer cannot): the catch
\* block holds {success: false} and the finally block calls page.close()
CaptureStepThrows_returnsInCatch ==
  /\ IsCaptureStep(capPc)
  /\ capPc # "settle"
  /\ capResult' = <<"failure", capPc>>
  /\ CaptureEnds(<<"failure", capPc>>)
  /\ UNCHANGED <<capPage, pages, pagesOpened, closeFailed, workerVars,
                 pipelineVars, renderVars,
                 storageVars>>

CaptureStepThrows ==
  /\ IsCaptureStep(capPc)
  /\ capPc # "settle"
  /\ capResult' = <<"failure", capPc>>
  /\ capPc' = "close"
  /\ UNCHANGED <<capPage, pages, pagesOpened, capOutcomes, closeFailed,
                 workerVars, pipelineVars, renderVars,
                 storageVars>>

\* page.close() resolves: the tab is closed and captureWebsite returns
PageCloseReturns ==
  /\ capPc = "close"
  /\ pages' = pages \ {capPage}
  /\ CaptureEnds(capResult)
  /\ UNCHANGED <<capPage, capResult, pagesOpened, closeFailed, workerVars,
                 pipelineVars, renderVars,
                 storageVars>>

\* page.close() rejects in the finally block: captureWebsite rejects; the tab
\* may or may not have been closed
PageCloseThrows(closed) ==
  /\ capPc = "close"
  /\ pages' = IF closed THEN pages \ {capPage} ELSE pages
  /\ closeFailed' = TRUE
  /\ CaptureEnds(<<"rejected", "close">>)
  /\ UNCHANGED <<capPage, capResult, pagesOpened, workerVars, pipelineVars,
                 renderVars, storageVars>>

CaptureNext ==
  \/ CaptureWebsiteCalled
  \/ NewPageReturns
  \/ NewPageThrows
  \/ CaptureStepReturns
  \/ CaptureStepThrows
  \/ PageCloseReturns
  \/ \E closed \in BOOLEAN : PageCloseThrows(closed)

CaptureSpec == Init /\ [][CaptureNext]_vars

\* ---- cleanupStorageLimit (services/cleanup.js) ----
\* Sizes are in MB; the code compares bytes, both sides multiplied by
\* 1024 * 1024.

MaxVideos == 3
MAX_STORAGE_MB == 5120

\* the sizes the file set of one completed video can have on disk
VideoSizesMB == {1, 5, 5120}

\* the volumes cleanupStorageLimit is exercised on: one entry per completed
\* video, ordered by created_at
Volumes == UNION {[1..n -> VideoSizesMB] : n \in 0..MaxVideos}

RECURSIVE SumMB(_)
SumMB(sizes) ==
  IF sizes = <<>> THEN 0 ELSE sizes[1] + SumMB(Tail(sizes))

\* getStorageStats: videos, previews and thumbnails together
TotalStorageMB == SumMB(volumeMB)

\* SELECT ... WHERE status = 'completed' ORDER BY created_at ASC LIMIT 50
OldestVideos(db) ==
  LET ids == db.generated_videos
      Older(v) == Cardinality({w \in ids : w < v})
  IN  [k \in 1..Min(50, Cardinality(ids)) |->
         CHOOSE v \in ids : Older(v) = k - 1]

\* the return statements of cleanupStorageLimit
LimitReturn(l, failed) ==
  /\ limitPc' = "returned"
  /\ limit' = [l EXCEPT !.result =
                 IF failed
                 THEN [deleted |-> 0, freedMB |-> 0, message |-> TRUE]
                 ELSE [deleted |-> l.deletedCount, freedMB |-> l.freedMB,
                       message |-> FALSE]]

\* the head of the for loop: the break test `freedBytes >= targetFreeBytes`,
\* targetFreeBytes being excessMB * 1.2, then the await of deleteVideoFiles
LimitLoop(l) ==
  IF l.i > Len(l.oldestVideos) \/ l.freedMB * 5 >= l.excessMB * 6
  THEN LimitReturn(l, FALSE)
  ELSE limitPc' = "deleteVideoFiles" /\ limit' = l

\* cleanupStorageLimit is called, with the volume and the store as they are
\* at that moment; it awaits getStorageStats
CleanupStorageLimitCalled(sizes) ==
  /\ limitPc = "idle"
  /\ limitPc' = "getStorageStats"
  /\ volumeMB' = sizes
  /\ limitDb' = [generated_videos |-> DOMAIN sizes, leads |-> DOMAIN sizes]
  /\ limit' = [called |-> TRUE, totalStorageMB |-> 0, excessMB |-> 0,
               oldestVideos |-> <<>>, i |-> 1, freedMB |-> 0,
               deletedCount |-> 0, unlinkFailed |-> FALSE,
               result |-> [none |-> TRUE]]
  /\ UNCHANGED <<workerVars, pipelineVars, renderVars, captureVars>>

\* getStorageStats resolves (it catches every error itself): within the
\* limit the function returns, above it the SELECT is awaited
GetStorageStatsReturns ==
  /\ limitPc = "getStorageStats"
  /\ LET l == [limit EXCEPT !.totalStorageMB = TotalStorageMB,
                            !.excessMB = TotalStorageMB - MAX_STORAGE_MB]
     IN  IF TotalStorageMB <= MAX_STORAGE_MB
         THEN LimitReturn(l, FALSE)
         ELSE limitPc' = "select" /\ limit' = l
  /\ UNCHANGED <<volumeMB, limitDb, workerVars, pipelineVars, renderVars,
                 captureVars>>

\* the SELECT resolves: the loop starts
LimitSelectReturns ==
  /\ limitPc = "select"
  /\ LimitLoop([limit EXCEPT !.oldestVideos = OldestVideos(limitDb)])
  /\ UNCHANGED <<volumeMB, limitDb, workerVars, pipelineVars, renderVars,
                 captureVars>>

\* the SELECT rejects: the outer catch returns the error message
LimitSelectThrows ==
  /\ limitPc = "select"
  /\ LimitReturn(limit, TRUE)
  /\ UNCHANGED <<volumeMB, limitDb, workerVars, pipelineVars, renderVars,
                 captureVars>>

\* deleteVideoFiles resolves; deleteFile swallows a failed unlink, so the
\* files are gone or still there; 5 MB are counted as freed either way
DeleteVideoFilesReturns(removed) ==
  /\ limitPc = "deleteVideoFiles"
  /\ LET v == limit.oldestVideos[limit.i] IN
     /\ volumeMB' = IF removed THEN [volumeMB EXCEPT ![v] = 0] ELSE volumeMB
     /\ limit' = [limit EXCEPT !.freedMB = @ + 5,
                               !.unlinkFailed = @ \/ ~removed]
  /\ limitPc' = "deleteVideo"
  /\ UNCHANGED <<limitDb, workerVars, pipelineVars, renderVars, captureVars>>

\* DELETE FROM generated_videos resolves; the lead's DELETE is awaited
LimitDeleteVideoReturns ==
  /\ limitPc = "deleteVideo"
  /\ limitDb' = [limitDb EXCEPT !.generated_videos =
                   @ \ {limit.oldestVideos[limit.i]}]
  /\ limitPc' = "deleteLead"
  /\ UNCHANGED <<limit, volumeMB, workerVars, pipelineVars, renderVars,
                 captureVars>>

\* DELETE FROM generated_videos rejects: the inner catch logs it, and the
\* loop goes on with the next video
LimitDeleteVideoThrows ==
  /\ limitPc = "deleteVideo"
  /\ LimitLoop([limit EXCEPT !.i = @ + 1])
  /\ UNCHANGED <<volumeMB, limitDb, workerVars, pipelineVars, renderVars,
                 captureVars>>

\* DELETE FROM leads resolves: deletedCount++, next video
LimitDeleteLeadReturns ==
  /\ limitPc = "deleteLead"
  /\ limitDb' = [limitDb EXCEPT !.leads = @ \ {limit.oldestVideos[limit.i]}]
  /\ LimitLoop([limit EXCEPT !.i = @ + 1, !.deletedCount = @ + 1])
  /\ UNCHANGED <<volumeMB, workerVars, pipelineVars, renderVars, captureVars>>

\* DELETE FROM leads rejects: the inner catch, next video
LimitDeleteLeadThrows ==
  /\ limitPc = "deleteLead"
  /\ LimitLoop([limit EXCEPT !.i = @ + 1])
  /\ UNCHANGED <<volumeMB, limitDb, workerVars, pipelineVars, renderVars,
                 captureVars>>

StorageNext ==
  \/ \E sizes \in Volumes : CleanupStorageLimitCalled(sizes)
  \/ GetStorageStatsReturns
  \/ LimitSelectReturns
  \/ LimitSelectThrows
  \/ \E removed \in BOOLEAN : DeleteVideoFilesReturns(removed)
  \/ LimitDeleteVideoReturns
  \/ LimitDeleteVideoThrows
  \/ LimitDeleteLeadReturns
  \/ LimitDeleteLeadThrows

StorageSpec == Init /\ [][StorageNext]_vars

\* ---- properties ----

Range(f) == {f[i] : i \in DOMAIN f}
QueuedIds == {processingQueue[i].id : i \in DOMAIN processingQueue}
ActiveDrains == {d \in DrainIds : pc[d] # "idle"}
DrainsInJob == {d \in DrainIds : pc[d] \in JobPcs}

\* C1: at any time at most one processQueue drain is active and at most one
\* job is being processed, whatever generate requests arrive while the worker
\* is suspended at an await.
C1_SingleDrain ==
  /\ Cardinality(ActiveDrains) <= 1
  /\ Cardinality(DrainsInJob) <= 1

\* a request has pushed jobs while the only drain was suspended at close()
C1_Witness ==
  \E d \in DrainIds : pc[d] = "close" /\ isProcessing /\ processingQueue # <<>>

\* C2: every job appended to the queue is eventually removed from it and
\* processed, when every awaited call of the worker eventually returns; stated
\* for the runs in which no session call (init, close) throws.
C2_EveryJobProcessed ==
  \A j \in 1..MaxJobs :
    (j \in QueuedIds /\ ~sessionError) ~> (j \in Range(finished) \/ sessionError)

\* C3: the jobs the worker starts and finishes are the appended jobs in append
\* order: job ids are given in append order, so both histories count 1, 2, 3,
\* ...; a job starts only when every earlier job has finished, and none twice.
C3_FifoOrder ==
  /\ \A i \in DOMAIN started : started[i] = i
  /\ \A i \in DOMAIN finished : finished[i] = i
  /\ Len(finished) <= Len(started)
  /\ Len(started) <= Len(finished) + 1
  /\ Len(started) <= enqueued

\* two jobs have been started and finished
C3_Witness == Len(finished) >= 2 /\ Len(started) >= 2

\* C4: processVideoJob never throws: a drain leaves a job only by going on to
\* the next queued job or, when the queue is empty, to the finally block; a
\* failed pipeline or a throwing store write never ends the drain early.
C4_JobNeverEndsDrain ==
  [][\A d \in DrainIds :
       (pc[d] \in JobPcs /\ pc'[d] \notin JobPcs) =>
         (pc'[d] = "close" /\ processingQueue = <<>>)]_vars

\* a drain is running a job after its previous job lost every status write
C4_Witness ==
  \E d \in DrainIds : pc[d] \in JobPcs /\ lastOutcome[d] = "unrecorded"

\* C5: no job writes both terminal statuses to the lead's record.
C5_OneTerminalStatus ==
  \A j \in 1..MaxJobs : Cardinality(terminal[j]) <= 1

\* a job has written completed and has returned
C5_Witness ==
  \E j \in Range(finished) : terminal[j] = {"completed"}

\* C6: the store never holds two generated-video rows for one lead.
C6_OneRowPerLead ==
  \A l \in Leads : Cardinality(RowsOf(store, l)) <= 1

\* a lead's row re-created after a delete, carrying an earlier terminal
\* status, is upserted to processing by a re-run
C6_Witness ==
  \E r \in store :
    /\ r.id >= 2
    /\ store = {r}
    /\ r.status = "processing"
    /\ rowHist[r.lead_id] \cap {"completed", "failed"} # {}

\* C7: after the worker's status writes for a lead, exactly one row exists for
\* the lead and its status, slug, four paths, error message and expiry are
\* those of the latest write.
C7_LatestWriteWins ==
  \A l \in Leads :
    lastWrite[l].status # "none" =>
      \E r \in store :
        /\ RowsOf(store, l) = {r}
        /\ r.status = lastWrite[l].status
        /\ r.unique_slug = lastWrite[l].unique_slug
        /\ r.video_path = lastWrite[l].video_path
        /\ r.preview_path = lastWrite[l].preview_path
        /\ r.thumbnail_path = lastWrite[l].thumbnail_path
        /\ r.background_path = lastWrite[l].background_path
        /\ r.error_message = lastWrite[l].error_message
        /\ r.expires_at = lastWrite[l].expires_at

\* C8: a row with status failed has an error message and no artifact paths.
C8_FailedHasNoPaths ==
  \A r \in store :
    r.status = "failed" =>
      /\ r.error_message # NULL
      /\ r.video_path = NoPath
      /\ r.preview_path = NoPath
      /\ r.thumbnail_path = NoPath
      /\ r.background_path = NoPath

\* C9: a row with status completed has all four artifact paths and no error
\* message.
C9_CompletedHasPaths ==
  \A r \in store :
    r.status = "completed" =>
      /\ r.video_path # NoPath
      /\ r.preview_path # NoPath
      /\ r.thumbnail_path # NoPath
      /\ r.background_path # NoPath
      /\ r.error_message = NULL

\* a row that was failed earlier is completed by a re-run
C9_Witness ==
  \E r \in store : r.status = "completed" /\ "failed" \in rowHist[r.lead_id]

\* C10: generateVSL is called only from the return of the processing upsert,
\* and that upsert leaves the lead's row with status processing and with the
\* slug and the expiry generated for this job, a slug no row had before.
C10_ProcessingBeforePipeline ==
  [][\A d \in DrainIds :
       (pc'[d] = "generateVSL" /\ pc[d] # "generateVSL") =>
         /\ pc[d] = "upsertProcessing"
         /\ \A r \in store : r.unique_slug # uniqueSlug[d]
         /\ \E r \in store' :
              /\ r.lead_id = job[d].leadId
              /\ r.status = "processing"
              /\ r.unique_slug = uniqueSlug[d]
              /\ r.expires_at = expiresAt[d]]_vars

\* the pipeline of a re-run is running on a row that an earlier run completed
\* on an earlier day
C10_Witness ==
  \E d \in DrainIds :
    /\ pc[d] = "generateVSL"
    /\ expiresAt[d] > getExpirationDate(0)
    /\ \E r \in store :
         /\ r.lead_id = job[d].leadId
         /\ r.unique_slug = uniqueSlug[d]
         /\ r.expires_at = expiresAt[d]
         /\ "completed" \in rowHist[r.lead_id]

\* C11: when the pipeline succeeded and the completed write returns without
\* error, exactly one row exists for the job's lead, completed and carrying
\* the job's four paths, also when the row was deleted while the pipeline ran.
C11_CompletedWriteLeavesRow ==
  [][\A d \in DrainIds :
       (pc[d] = "updateCompleted" /\ Len(finished') > Len(finished)) =>
         \E r \in store' :
           /\ RowsOf(store', job[d].leadId) = {r}
           /\ r.status = "completed"
           /\ r.video_path = VideoPath(job[d].leadId)
           /\ r.preview_path = PreviewPath(job[d].leadId)
           /\ r.thumbnail_path = ThumbnailPath(job[d].leadId)
           /\ r.background_path = ScreenshotPath(job[d].leadId)]_vars

\* C12: when the pipeline succeeded and the completed write throws, the row
\* is not written failed with the store's error text: a failed write happens
\* only for a job whose pipeline returned failure.
C12_FailedOnlyOnPipelineFailure ==
  [][\A d \in DrainIds :
       (pc[d] = "upsertFailed" /\ result[d] = "success") =>
         /\ "failed" \notin terminal'[job[d].id]
         /\ \A r \in store' :
              (r.lead_id = job[d].leadId /\ r.status = "failed") => r \in store]_vars

\* C13: no step of the sweeper deletes the row or the lead of a lead whose job
\* the worker is processing, however the sweeper's select and per-row deletes
\* interleave with the worker.
C13_SweeperSparesActiveJob ==
  [][sweep' # sweep =>
       \A d \in DrainsInJob :
         /\ RowsOf(store, job[d].leadId) \subseteq store'
         /\ job[d].leadId \in leadsTable => job[d].leadId \in leadsTable']_vars

\* C18: whenever no drain is running (the last one ended because the queue was
\* emptied, init failed or close failed), isProcessing is false, so that the
\* next generate request starts a drain.
C18_FlagClearedAfterDrain == ActiveDrains = {} => ~isProcessing

\* C19: a job that found the lead's row failed (left by an earlier job), whose
\* pipeline succeeds and whose completed write returns, ends with exactly one
\* row for the lead: completed, with the job's paths and no error message.
C19_RerunOverwritesFailed ==
  [][\A d \in DrainIds :
       (/\ pc[d] = "updateCompleted"
        /\ result[d] = "success"
        /\ rerunOfFailed[d]
        /\ Len(finished') > Len(finished)) =>
         \E r \in store' :
           /\ RowsOf(store', job[d].leadId) = {r}
           /\ r.status = "completed"
           /\ r.video_path = VideoPath(job[d].leadId)
           /\ r.preview_path = PreviewPath(job[d].leadId)
           /\ r.thumbnail_path = ThumbnailPath(job[d].leadId)
           /\ r.background_path = ScreenshotPath(job[d].leadId)
           /\ r.error_message = NULL]_vars

\* the campaign's leads that have no row in generated_videos
Unrecorded(c) == {l \in LeadsOfCampaign(c) : RowsOf(store, l) = {}}

\* the campaign's leads that have a job in the queue
QueuedLeads(c) ==
  {processingQueue[i].leadId : i \in {k \in DOMAIN processingQueue :
                                        processingQueue[k].campaignId = c}}

StageOrder == <<"captureWebsite", "createScrollingBackground",
                "createVideoWithOverlay", "createPreview", "createThumbnail">>
IsStage(op) == op \in Range(StageOrder)
IsPrefix(s, t) == Len(s) <= Len(t) /\ SubSeq(t, 1, Len(s)) = s
StagesCalled == SelectSeq(vslCalls, IsStage)

\* the operations of the compositor
CompositorOps == {"getVideoDuration", "createScrollingBackground",
                  "createVideoWithOverlay", "createPreview", "createThumbnail"}

VslReturned == vslPc = "idle" /\ vslResult \in {"success", "failure"}

\* C14: an invocation of generateVSL calls the stages SCREENSHOT, BACKGROUND,
\* OVERLAY, PREVIEW, THUMBNAIL at most once each and in this order; when a
\* stage fails, it is the last stage called (no later stage, no retry) and the
\* invocation returns failure.
C14_StagesOnceInOrder ==
  /\ IsPrefix(StagesCalled, StageOrder)
  /\ IsStage(vslError) =>
       /\ StagesCalled # <<>>
       /\ StagesCalled[Len(StagesCalled)] = vslError
       /\ vslResult # "success"
       /\ vslPc = "idle" => vslResult = "failure"

\* the overlay stage has failed after capture and background, and generateVSL
\* has returned
C14_Witness ==
  /\ VslReturned
  /\ vslError = "createVideoWithOverlay"
  /\ Len(StagesCalled) = 3

\* C15 as stated: when the capture fails, no operation of the compositor, the
\* duration probe included, is called during the invocation.
C15_NoCompositorCall ==
  vslError = "captureWebsite" => \A i \in DOMAIN vslCalls : vslCalls[i] \notin CompositorOps

\* C15: when the capture fails, generateVSL returns failure and the calls of
\* the invocation are the duration probe, made before the capture, and the
\* capture: none of createScrollingBackground, createVideoWithOverlay,
\* createPreview, createThumbnail is called.
C15_OnlyProbeBeforeCapture ==
  vslError = "captureWebsite" =>
    /\ vslCalls = <<"getVideoDuration", "captureWebsite">>
    /\ vslResult # "success"
    /\ vslPc = "idle" => vslResult = "failure"

\* the capture has failed and generateVSL has returned
C15_Witness == VslReturned /\ vslError = "captureWebsite"

\* C16 as stated: after generateVSL has returned, with success or with
\* failure, the temp workspace of the lead does not exist.
C16_WorkspaceRemoved == VslReturned => TempDir(vslLead) \notin disk

\* C16: after generateVSL has returned, the temp workspace of the lead does
\* not exist unless the fs.rm that removes it has failed; a success is
\* returned only with the workspace removed.
C16_WorkspaceRemovedUnlessRmFailed ==
  /\ (VslReturned /\ ~rmFailed) => TempDir(vslLead) \notin disk
  /\ (VslReturned /\ vslResult = "success") => TempDir(vslLead) \notin disk

\* a stage has failed after the workspace was created, and generateVSL has
\* returned with the workspace removed
C16_Witness ==
  /\ VslReturned
  /\ IsStage(vslError)
  /\ ~rmFailed
  /\ TempDir(vslLead) \notin disk

\* C17: generateVSL never rejects: the error of any step, the creation and the
\* removal of the workspace included, is returned as {success: false, error}.
C17_NeverRejects == vslResult # "rejected"

\* ---- claims C21..C28: the values and filters of the renderer ----

BubbleStyles == {"small_bubble", "big_bubble"}
CurrentSnapshots == {"videoProcessor.js", "part_002"}
Configured(v, default) == IF v = NoNum THEN default ELSE v[1]

\* C21: for every job the worker runs, the fullscreen transition time and the
\* scroll duration the pipeline uses are the ones configured on the job's
\* campaign, and the defaults 20 and 15 only when the campaign configures none
C21_ConfiguredTimesUsed ==
  (renderPc = "generateVSL" /\ snapshot = "videoProcessor.js"
     /\ gen.campaign # NoCampaign) =>
    /\ gen.fullscreenTransitionTime =
         Configured(gen.campaign.fullscreen_transition_time, 20)
    /\ gen.scrollDuration = Configured(gen.campaign.scroll_duration, 15)

\* C22: for style full_screen with transition time T, at every output time
\* exactly one overlay phase is enabled: the corner bubble iff t < T, the
\* full-frame overlay iff t >= T
C22_OnePhasePerFrame ==
  (renderPc = "createVideoWithOverlay" /\ snapshot \in CurrentSnapshots
     /\ overlay.config.style = "full_screen") =>
    LET T == overlay.config.fullscreenTransitionTime * TicksPerSecond
    IN  /\ overlay.enabled.bubble <=> overlay.frame < T
        /\ overlay.enabled.full <=> overlay.frame >= T
        /\ overlay.enabled.bubble # overlay.enabled.full

\* T = 5: the bubble was on at t = 3 and the full frame is on at t = 6
C22_Witness ==
  /\ renderPc = "createVideoWithOverlay"
  /\ snapshot = "videoProcessor.js"
  /\ overlay.config.style = "full_screen"
  /\ overlay.config.fullscreenTransitionTime = 5
  /\ overlay.frame = 6 * TicksPerSecond
  /\ overlay.enabled.full
  /\ ~overlay.enabled.bubble
  /\ PhaseEnables(snapshot, overlay.config, 3 * TicksPerSecond).bubble

\* C23 as stated: the total background duration is the intro duration plus one
\* for the bubble styles and the scroll duration alone for full_screen
C23_TotalIsIntroPlusOne ==
  (renderPc = "generateVSL" /\ snapshot \in CurrentSnapshots) =>
    gen.totalBackgroundDuration =
      IF gen.videoStyle \in BubbleStyles
      THEN gen.introVideoDuration + 1
      ELSE gen.scrollDuration

\* C23: in videoProcessor.js the total background duration is the larger of
\* the scroll duration and the intro duration plus one for the bubble styles,
\* and the scroll duration alone for full_screen; part_002 passes the intro
\* duration plus one for every style
C23_TotalIsMaxOfScrollAndIntro ==
  (renderPc = "generateVSL" /\ snapshot \in CurrentSnapshots) =>
    gen.totalBackgroundDuration =
      IF snapshot = "part_002"
      THEN gen.introVideoDuration + 1
      ELSE IF gen.videoStyle \in BubbleStyles
           THEN Max(gen.scrollDuration, gen.introVideoDuration + 1)
           ELSE gen.scrollDuration

\* a bubble job whose scroll outlasts the intro video, one whose intro video
\* outlasts the scroll: both sides of the maximum occur
C23_Witness ==
  /\ renderPc = "generateVSL"
  /\ snapshot = "videoProcessor.js"
  /\ gen.campaign # NoCampaign
  /\ gen.videoStyle \in BubbleStyles
  /\ gen.introVideoDuration + 1 < gen.scrollDuration
  /\ gen.totalBackgroundDuration = gen.scrollDuration

\* C24: for the bubble styles, the computed total background duration is at
\* least the intro video's duration
C24_BackgroundCoversIntro ==
  (renderPc = "generateVSL" /\ snapshot \in CurrentSnapshots
     /\ gen.videoStyle \in BubbleStyles) =>
    gen.totalBackgroundDuration >= gen.introVideoDuration

\* an intro video longer than the scroll: the background is extended
C24_Witness ==
  /\ renderPc = "generateVSL"
  /\ snapshot = "videoProcessor.js"
  /\ gen.videoStyle \in BubbleStyles
  /\ gen.introVideoDuration > gen.scrollDuration
  /\ gen.totalBackgroundDuration > gen.scrollDuration

\* C25: in every revision, for each position and style, the bubble lies
\* within the 1280x720 frame
C25_BubbleInsideFrame ==
  renderPc = "createVideoWithOverlay" =>
    /\ 0 <= overlay.box.x
    /\ overlay.box.x + overlay.box.width <= VIEWPORT_WIDTH
    /\ 0 <= overlay.box.y
    /\ overlay.box.y + overlay.box.height <= VIEWPORT_HEIGHT

\* C26: the smoothstep progress of videoProcessor.js is 0 at t = 0, 1 at every
\* t >= scrollDuration, and never decreases from one frame to the next
C26_SmoothstepMonotone ==
  [][(renderPc' = "createScrollingBackground"
        /\ snapshot' = "videoProcessor.js" /\ scroll' # scroll) =>
       LET p == scroll'.progress
           Q == GridPoints(snapshot', scroll'.scrollDuration)
       IN  /\ scroll'.frame = 0 => p.num = 0
           /\ scroll'.frame >= Q => p.num = p.den
           /\ 0 <= p.num /\ p.num <= p.den
           /\ renderPc = "createScrollingBackground" =>
                p.num * scroll.progress.den >= scroll.progress.num * p.den
    ]_vars

\* the scroll has ended and the frame is frozen at the bottom
C26_Witness ==
  /\ renderPc = "createScrollingBackground"
  /\ snapshot = "videoProcessor.js"
  /\ scroll.frame > GridPoints(snapshot, scroll.scrollDuration)
  /\ scroll.progress.num = scroll.progress.den

\* C27: the staircase progress of part_002 never decreases, is k/N from the
\* end of step k's scroll phase until step k+1's scroll phase begins, and
\* never exceeds 1
C27_StaircaseHolds ==
  [][(renderPc' = "createScrollingBackground"
        /\ snapshot' = "part_002" /\ scroll' # scroll) =>
       LET p == scroll'.progress
           N == numSteps(scroll'.scrollDuration)
           a == scroll'.frame
           k == a \div GridPerStep
           m == a % GridPerStep
       IN  /\ p.num <= p.den
           /\ (a < GridPerStep * N /\ m >= scrollPhase) =>
                p.num * N = (k + 1) * p.den
           /\ (a < GridPerStep * N /\ m = 0) => p.num * N = k * p.den
           /\ renderPc = "createScrollingBackground" =>
                p.num * scroll.progress.den >= scroll.progress.num * p.den
    ]_vars

\* the pause of the second step: progress is held at 2/N
C27_Witness ==
  /\ renderPc = "createScrollingBackground"
  /\ snapshot = "part_002"
  /\ scroll.frame = 2 * GridPerStep - 1
  /\ scroll.progress.num * numSteps(scroll.scrollDuration)
       = 2 * scroll.progress.den

\* C28: for every image height and every time, the crop offset y satisfies
\* 0 <= y and y + 720 <= ih
C28_CropInsideImage ==
  (renderPc = "createScrollingBackground" /\ snapshot \in CurrentSnapshots) =>
    /\ 0 <= scroll.cropY.num
    /\ scroll.cropY.num + VIEWPORT_HEIGHT * scroll.cropY.den
         <= scroll.ih * scroll.cropY.den

\* ---- claims C29, C30 ----

C30_SweeperDeletesCompletedExpired ==
  [][sweep' # sweep =>
       \A r \in store \ store' :
         r.status = "completed" /\ r.expires_at < now]_vars

\* ---- retention ----

\* C31 (as stated; the code's default is 30 days): with VIDEO_RETENTION_DAYS
\* unset, the expiry a job computes when it starts, and writes to the lead's
\* record, is 60 days after that moment
C31_ExpirySixtyDaysAhead ==
  \A d \in DrainIds : pc[d] \in JobPcs => expiresAt[d] = now + 60

\* ---- C32 ----

\* C32 (as stated; fails in part_002 for intros shorter than 7 seconds): the
\* total background duration generateVSL passes to createScrollingBackground
\* is at least the scroll duration it passes with it, whatever the intro lasts
C32_TotalCoversScroll ==
  (renderPc = "generateVSL" /\ snapshot \in CurrentSnapshots)
    => gen.totalBackgroundDuration >= gen.scrollDuration

\* ---- C33 ----

\* C33 (as stated; the loop counts 5 MB per video whatever its files weigh):
\* when cleanupStorageLimit ran with the aggregate storage above
\* MAX_STORAGE_MB and returned without a top-level error, the aggregate
\* storage is at or below the limit
C33_StorageUnderLimitAfterCleanup ==
  (/\ limitPc = "returned"
   /\ ~limit.result.message
   /\ ~limit.unlinkFailed
   /\ limit.totalStorageMB > MAX_STORAGE_MB)
    => TotalStorageMB <= MAX_STORAGE_MB

\* ---- C34 ----

C36_StatusCountsAddUp ==
  LET st == statusReq.status IN
  st.completed + st.processing + st.pending + st.failed = st.total

\* ---- C37 ----

\* the paths of the result generateVSL returns on success
ResultPaths(l) ==
  [videoPath |-> VideoPath(l), previewPath |-> PreviewPath(l),
   thumbnailPath |-> ThumbnailPath(l), backgroundPath |-> ScreenshotPath(l)]

\* C37 (as stated; backgroundPath names the screenshot, which is removed with
\* the workspace before the return): when generateVSL has returned success,
\* each of the four paths of its result names a file that exists on disk
C37_ResultPathsExist ==
  (vslPc = "idle" /\ vslResult = "success")
    => \A k \in DOMAIN ResultPaths(vslLead) : ResultPaths(vslLead)[k] \in disk

\* ---- C38 ----

\* C38 (as stated; the catch block removes the workspace only): when
\* generateVSL has returned a failure, no file that invocation wrote is left
\* in the persistent output directories.  Stated for the first invocation,
\* before which the directories are empty.
C38_FailureLeavesNoArtifact ==
  (vslRuns = 1 /\ vslPc = "idle" /\ vslResult = "failure")
    => disk \cap ArtifactsOf(vslLead) = {}

\* ---- C39 ----

\* C39 (as stated; the files are unlinked before the DELETE, and stay gone
\* when the DELETE is rejected): whenever a record with status completed is
\* in the store, the file at its video_path exists on disk
C39_CompletedVideoOnDisk ==
  \A r \in store : r.status = "completed" => r.video_path \in disk

\* ---- C40 ----

\* C40 (as stated; a job whose failed write is rejected leaves its record
\* processing): the number of records with status processing is at most the
\* number of jobs in flight, at most 1 while the worker is busy and 0
\* whenever the worker is idle
C40_ProcessingOnlyInFlight ==
  LET processing == {r \in store : r.status = "processing"} IN
  /\ Cardinality(processing) <= Cardinality(DrainsInJob)
  /\ Cardinality(processing) <= 1
  /\ ActiveDrains = {} => processing = {}

====
